---- MODULE Spec2Model ----
(***************************************************************************)
(* Model of the data-preparation front end linhoFlow/data_prepo_front.     *)
(*                                                                         *)
(* The transformation engine is src/unnamed/part_007 (dataProcessor) and   *)
(* the pipeline page with the local autopilot is src/unnamed/part_001      *)
(* (PreprocessingPipeline).                                                *)
(*                                                                         *)
(* Numbers are held in fixed point: the integer x stands for x / Scale.    *)
(* Every rounding in the engine is to 2 or 4 decimals, and between two     *)
(* roundings the engine only halves (medians, 1.5 * IQR), so Scale is      *)
(* 10^4 times a power of two.  Arithmetic is exact (the binary64 rounding  *)
(* of the JavaScript engine is not modelled); an operation whose exact     *)
(* result is not a multiple of 1 / Scale evaluates Inexact, which stops    *)
(* the model checker instead of rounding silently.                         *)
(*                                                                         *)
(* Strings are TLA+ strings over letters, digits, "_", "-" and ".";         *)
(* column names are never integer-like, so the key order of a row object   *)
(* is its insertion order.                                                 *)
(***************************************************************************)
EXTENDS Integers, Sequences, FiniteSets, TLC

(***************************************************************************)
(* Generic helpers                                                         *)
(***************************************************************************)
\* Math.round(x * 10000) / 10000
Decimals == 10000

Scale == Decimals * 2 * 2 * 2 * 2 * 2 * 2

Inexact == CHOOSE x \in {} : TRUE

Abs(x) == IF x < 0 THEN -x ELSE x

RECURSIVE Gcd(_, _)
Gcd(a, b) == IF b = 0 THEN Abs(a) ELSE Gcd(b, a % Abs(b))

\* a / b for an exact quotient
ExactDiv(a, b) == IF a % b = 0 THEN a \div b ELSE Inexact

\* Math.round(a / b) for b > 0: the nearest integer, halves towards +Infinity
RoundDiv(a, b) == (2 * a + b) \div (2 * b)

Range(s) == {s[i] : i \in DOMAIN s}

RECURSIVE SeqSum(_)
SeqSum(s) == IF s = <<>> THEN 0 ELSE Head(s) + SeqSum(Tail(s))

\* [...new Set(s)]: the distinct elements in order of first occurrence
RECURSIVE Distinct(_)
Distinct(s) ==
    IF s = <<>> THEN <<>>
    ELSE LET d == Distinct(SubSeq(s, 1, Len(s) - 1))
             x == s[Len(s)]
         IN  IF x \in Range(d) THEN d ELSE Append(d, x)

\* Array.prototype.sort with a numeric comparator (stable insertion sort)
RECURSIVE InsertNum(_, _)
InsertNum(s, x) ==
    IF s = <<>> THEN <<x>>
    ELSE IF x < Head(s) THEN <<x>> \o s
    ELSE <<Head(s)>> \o InsertNum(Tail(s), x)

RECURSIVE SortNum(_)
SortNum(s) == IF s = <<>> THEN <<>> ELSE InsertNum(SortNum(SubSeq(s, 1, Len(s) - 1)), s[Len(s)])

(***************************************************************************)
(* Exact arithmetic on naturals of any size, for the comparisons of the    *)
(* engine whose terms do not fit a machine word: a natural is the          *)
(* sequence of its base-Limb digits, least significant first, without      *)
(* leading zeros (0 is the empty sequence).                                *)
(***************************************************************************)
Limb == 10000

RECURSIVE BigOf(_)
BigOf(x) == IF x = 0 THEN <<>> ELSE <<x % Limb>> \o BigOf(x \div Limb)

RECURSIVE BigAddC(_, _, _)
BigAddC(a, b, carry) ==
    IF a = <<>> /\ b = <<>> THEN BigOf(carry)
    ELSE LET x == IF a = <<>> THEN 0 ELSE Head(a)
             y == IF b = <<>> THEN 0 ELSE Head(b)
             t == x + y + carry
         IN  <<t % Limb>> \o BigAddC(IF a = <<>> THEN a ELSE Tail(a), IF b = <<>> THEN b ELSE Tail(b), t \div Limb)

BigAdd(a, b) == BigAddC(a, b, 0)

RECURSIVE BigMulLimb(_, _, _)
BigMulLimb(a, f, carry) ==
    IF a = <<>> THEN BigOf(carry)
    ELSE LET t == Head(a) * f + carry IN <<t % Limb>> \o BigMulLimb(Tail(a), f, t \div Limb)

RECURSIVE BigMul(_, _)
BigMul(a, b) ==
    IF a = <<>> \/ b = <<>> THEN <<>>
    ELSE LET rest == BigMul(a, Tail(b))
             low == IF Head(b) = 0 THEN <<>> ELSE BigMulLimb(a, Head(b), 0)
         IN  BigAdd(low, IF rest = <<>> THEN <<>> ELSE <<0>> \o rest)

RECURSIVE BigLess(_, _)
BigLess(a, b) ==
    IF Len(a) # Len(b) THEN Len(a) < Len(b)
    ELSE IF a = <<>> THEN FALSE
    ELSE IF a[Len(a)] # b[Len(b)] THEN a[Len(a)] < b[Len(b)]
    ELSE BigLess(SubSeq(a, 1, Len(a) - 1), SubSeq(b, 1, Len(b) - 1))

RECURSIVE BigTrim(_)
BigTrim(a) == IF a # <<>> /\ a[Len(a)] = 0 THEN BigTrim(SubSeq(a, 1, Len(a) - 1)) ELSE a

RECURSIVE BigSubB(_, _, _)
\* a - b - borrow for a >= b + borrow, before trimming
BigSubB(a, b, borrow) ==
    IF a = <<>> THEN <<>>
    ELSE LET y == IF b = <<>> THEN 0 ELSE Head(b)
             t == Head(a) - y - borrow
         IN  <<t % Limb>> \o BigSubB(Tail(a), IF b = <<>> THEN b ELSE Tail(b), IF t < 0 THEN 1 ELSE 0)

\* | a - b |
BigDiff(a, b) == IF BigLess(a, b) THEN BigTrim(BigSubB(b, a, 0)) ELSE BigTrim(BigSubB(a, b, 0))

RECURSIVE BigProd(_)
\* the product of a sequence of naturals given as machine integers
BigProd(fs) == IF fs = <<>> THEN <<1>> ELSE BigMul(BigOf(Head(fs)), BigProd(Tail(fs)))

RECURSIVE BigSum(_)
BigSum(bs) == IF bs = <<>> THEN <<>> ELSE BigAdd(Head(bs), BigSum(Tail(bs)))

\* the largest natural m with m * m * den <= num (den > 0), by doubling and bisection
RECURSIVE SqrtHi(_, _, _)
SqrtHi(num, den, hi) == IF BigLess(num, BigMul(BigProd(<<hi, hi>>), den)) THEN hi ELSE SqrtHi(num, den, 2 * hi)

RECURSIVE SqrtBisect(_, _, _, _)
\* invariant: lo * lo * den <= num < hi * hi * den
SqrtBisect(num, den, lo, hi) ==
    IF hi - lo <= 1 THEN lo
    ELSE LET mid == (lo + hi) \div 2
         IN  IF BigLess(num, BigMul(BigProd(<<mid, mid>>), den)) THEN SqrtBisect(num, den, lo, mid)
             ELSE SqrtBisect(num, den, mid, hi)

FloorSqrtRatio(num, den) == SqrtBisect(num, den, 0, SqrtHi(num, den, 1))

(***************************************************************************)
(* Strings                                                                 *)
(***************************************************************************)
Alphabet == "-.0123456789ABCDEFGHIJKLMNOPQRSTUVWXYZ_abcdefghijklmnopqrstuvwxyz"

UpperChars == "ABCDEFGHIJKLMNOPQRSTUVWXYZ"

LowerChars == "abcdefghijklmnopqrstuvwxyz"

DigitChars == "0123456789"

Char(s, i) == SubSeq(s, i, i)

\* code unit order of the characters of Alphabet ("-" < "." < digits < upper case < "_" < lower case)
CharCode(c) == CHOOSE i \in 1..Len(Alphabet) : Char(Alphabet, i) = c

IsDigit(c) == \E i \in 1..10 : Char(DigitChars, i) = c

DigitVal(c) == (CHOOSE i \in 1..10 : Char(DigitChars, i) = c) - 1

\* String.prototype.toLowerCase
RECURSIVE ToLower(_)
ToLower(s) ==
    IF Len(s) = 0 THEN ""
    ELSE LET c == Char(s, 1)
             lc == IF \E i \in 1..26 : Char(UpperChars, i) = c
                   THEN Char(LowerChars, CHOOSE i \in 1..26 : Char(UpperChars, i) = c)
                   ELSE c
         IN  lc \o ToLower(SubSeq(s, 2, Len(s)))

\* String.prototype.includes
Includes(s, k) == \E i \in 1..(Len(s) - Len(k) + 1) : SubSeq(s, i, i + Len(k) - 1) = k

\* default comparison of Array.prototype.sort on strings: by code units
RECURSIVE StrLess(_, _)
StrLess(a, b) ==
    IF Len(b) = 0 THEN FALSE
    ELSE IF Len(a) = 0 THEN TRUE
    ELSE IF Char(a, 1) # Char(b, 1) THEN CharCode(Char(a, 1)) < CharCode(Char(b, 1))
    ELSE StrLess(SubSeq(a, 2, Len(a)), SubSeq(b, 2, Len(b)))

RECURSIVE InsertStr(_, _)
InsertStr(s, x) ==
    IF s = <<>> THEN <<x>>
    ELSE IF StrLess(x, Head(s)) THEN <<x>> \o s
    ELSE <<Head(s)>> \o InsertStr(Tail(s), x)

RECURSIVE SortStr(_)
SortStr(s) == IF s = <<>> THEN <<>> ELSE InsertStr(SortStr(SubSeq(s, 1, Len(s) - 1)), s[Len(s)])

AllDigits(s) == \A i \in 1..Len(s) : IsDigit(Char(s, i))

RECURSIVE DigitsVal(_)
DigitsVal(s) == IF Len(s) = 0 THEN 0 ELSE 10 * DigitsVal(SubSeq(s, 1, Len(s) - 1)) + DigitVal(Char(s, Len(s)))

\* the decimal literals  [-] digits [. digits]  with at least one digit
DotPos(s) == IF \E i \in 1..Len(s) : Char(s, i) = "." THEN CHOOSE i \in 1..Len(s) : Char(s, i) = "." /\ \A j \in 1..(i - 1) : Char(s, j) # "." ELSE 0

Unsigned(s) == IF Len(s) > 0 /\ Char(s, 1) = "-" THEN SubSeq(s, 2, Len(s)) ELSE s

IntPart(s) == IF DotPos(Unsigned(s)) = 0 THEN Unsigned(s) ELSE SubSeq(Unsigned(s), 1, DotPos(Unsigned(s)) - 1)

FracPart(s) == IF DotPos(Unsigned(s)) = 0 THEN "" ELSE SubSeq(Unsigned(s), DotPos(Unsigned(s)) + 1, Len(Unsigned(s)))

IsDecimalLiteral(s) == AllDigits(IntPart(s)) /\ AllDigits(FracPart(s)) /\ Len(IntPart(s)) + Len(FracPart(s)) >= 1

\* the value of the fraction digits f in fixed point
RECURSIVE FracValue(_)
FracValue(f) == IF Len(f) = 0 THEN 0 ELSE ExactDiv(DigitVal(Char(f, 1)) * Scale + FracValue(SubSeq(f, 2, Len(f))), 10)

DecimalValue(s) ==
    (IF Len(s) > 0 /\ Char(s, 1) = "-" THEN -1 ELSE 1) * (DigitsVal(IntPart(s)) * Scale + FracValue(FracPart(s)))

\* String(x) of a number
RECURSIVE FracDigits(_)
FracDigits(r) == IF r = 0 THEN "" ELSE Char(DigitChars, ((10 * r) \div Scale) + 1) \o FracDigits((10 * r) % Scale)

NumToStr(x) ==
    (IF x < 0 THEN "-" ELSE "") \o ToString(Abs(x) \div Scale)
        \o (IF Abs(x) % Scale = 0 THEN "" ELSE "." \o FracDigits(Abs(x) % Scale))

(***************************************************************************)
(* Cell values and the JavaScript coercions the engine applies to them     *)
(***************************************************************************)
Num(x) == [t |-> "num", n |-> x, s |-> ""]

NumI(i) == Num(i * Scale)

Str(x) == [t |-> "str", n |-> 0, s |-> x]

Bool(b) == [t |-> "bool", n |-> IF b THEN 1 ELSE 0, s |-> ""]

Null == [t |-> "null", n |-> 0, s |-> ""]

Undef == [t |-> "undef", n |-> 0, s |-> ""]

NaN == [ok |-> FALSE, v |-> 0]

Finite(x) == [ok |-> TRUE, v |-> x]

\* v !== null && v !== undefined && v !== ''
IsPresent(v) == ~(v.t = "null" \/ v.t = "undef" \/ (v.t = "str" /\ v.s = ""))

\* String(v)
ToStr(v) ==
    CASE v.t = "num" -> NumToStr(v.n)
      [] v.t = "str" -> v.s
      [] v.t = "bool" -> IF v.n = 1 THEN "true" ELSE "false"
      [] v.t = "null" -> "null"
      [] v.t = "undef" -> "undefined"

\* String(v ?? '')
ToStrOrEmpty(v) == IF v.t \in {"null", "undef"} THEN "" ELSE ToStr(v)

\* Number(s) of a string
StrToNumber(s) == IF s = "" THEN Finite(0) ELSE IF IsDecimalLiteral(s) THEN Finite(DecimalValue(s)) ELSE NaN

\* parseFloat(s): the longest prefix that is a decimal literal
ParseFloat(s) ==
    IF \E k \in 1..Len(s) : IsDecimalLiteral(SubSeq(s, 1, k))
    THEN Finite(DecimalValue(SubSeq(s, 1, CHOOSE k \in 1..Len(s) :
                                            /\ IsDecimalLiteral(SubSeq(s, 1, k))
                                            /\ \A j \in (k + 1)..Len(s) : ~IsDecimalLiteral(SubSeq(s, 1, j)))))
    ELSE NaN

\* Number(v)
ToNumber(v) ==
    CASE v.t = "num" -> Finite(v.n)
      [] v.t = "str" -> StrToNumber(v.s)
      [] v.t = "bool" -> Finite(v.n * Scale)
      [] v.t = "null" -> Finite(0)
      [] v.t = "undef" -> NaN

\* typeof v === 'number' ? v : parseFloat(String(v))
ToFloat(v) == IF v.t = "num" THEN Finite(v.n) ELSE ParseFloat(ToStr(v))

(***************************************************************************)
(* Rows: a DataRow is an object, modelled as the sequence of its           *)
(* (key, value) entries in key order                                       *)
(***************************************************************************)
Keys(row) == [i \in DOMAIN row |-> row[i].k]

HasKey(row, col) == \E i \in DOMAIN row : row[i].k = col

\* row[col]
Get(row, col) == IF HasKey(row, col) THEN row[CHOOSE i \in DOMAIN row : row[i].k = col].v ELSE Undef

\* { ...row, [col]: v }
SetKey(row, col, v) ==
    IF HasKey(row, col) THEN [i \in DOMAIN row |-> IF row[i].k = col THEN [k |-> col, v |-> v] ELSE row[i]]
    ELSE Append(row, [k |-> col, v |-> v])

\* const { [col]: _, ...rest } = row
DelKey(row, col) == SelectSeq(row, LAMBDA e : e.k # col)

Column(data, col) == [i \in DOMAIN data |-> Get(data[i], col)]

\* JSON.stringify(row): entries in key order, undefined-valued keys left out
JsonKey(row) == SelectSeq(row, LAMBDA e : e.v.t # "undef")

(***************************************************************************)
(* Column statistics (part_007: computeColumnStats)                        *)
(***************************************************************************)
RECURSIVE GcdAll(_, _)
GcdAll(f, idx) == IF idx = {} THEN 0 ELSE LET i == CHOOSE j \in idx : TRUE IN Gcd(f[i], GcdAll(f, idx \ {i}))

Count(s, x) == Cardinality({i \in DOMAIN s : s[i] = x})

\* an array index key of an object: a canonical non-negative integer
IsIndexKey(k) == Len(k) >= 1 /\ AllDigits(k) /\ (Len(k) = 1 \/ Char(k, 1) # "0")

\* Object.keys / Object.entries order of an object whose string keys were
\* inserted in the order ks: index keys ascending, then the others as inserted
ObjectKeys(ks) ==
    LET d == Distinct(ks)
        idx == SelectSeq(d, LAMBDA k : IsIndexKey(k))
        sortedIdx == SortNum([i \in DOMAIN idx |-> DigitsVal(idx[i])])
    IN  [i \in DOMAIN sortedIdx |-> ToString(sortedIdx[i])] \o SelectSeq(d, LAMBDA k : ~IsIndexKey(k))

\* freq: the number of times each of the strings ks occurs
FreqTable(ks) == [k \in Range(ks) |-> Count(ks, k)]

\* Object.entries(freq).find(([, f]) => f === maxFreq)?.[0] with the keys of
\* freq in the order of Object.entries
FirstWithMax(keys, freq) ==
    keys[CHOOSE j \in DOMAIN keys :
            /\ \A k \in DOMAIN freq : freq[k] <= freq[keys[j]]
            /\ \A h \in 1..(j - 1) : freq[keys[h]] # freq[keys[j]]]

\* the first most frequent of the strings ks (ks non-empty)
FirstMostFrequent(ks) == FirstWithMax(ObjectKeys(ks), FreqTable(ks))

\* xs.filter(x => !isNaN(x)) of converted cells
FiniteValues(fs) == [i \in DOMAIN fs |-> fs[i].v]

\* the numeric values of a column: typeof v === 'number' ? v : parseFloat(String(v)), NaN dropped
NumericValues(data, column) ==
    FiniteValues(SelectSeq([i \in DOMAIN data |-> ToFloat(Get(data[i], column))], LAMBDA x : x.ok))

\* Math.max(...xs) and Math.min(...xs) raise a RangeError when xs holds more
\* elements than the JavaScript engine accepts as the arguments of one call;
\* the limit is scaled down to the table sizes held here
ArgLimit == 12

\* computeColumnStats throws: Math.max(...Object.values(freq))
StatsThrows(data, column) == Cardinality(Range(NumericValues(data, column))) > ArgLimit

\* |skewness| < 1/den, for n > 2 and a non-zero standard deviation, where
\* m2 and m3 are the second and third central sums of the deviations
\* n*v - sum as exact naturals (m3 in absolute value):
\*   skewness^2 = n^5 * m3^2 / ((n-1)^2 * (n-2)^2 * m2^3)
SkewBelow(n, m2, m3, den) ==
    BigLess(BigMul(BigProd(<<den, den, n, n, n, n, n>>), BigMul(m3, m3)),
            BigMul(BigProd(<<n - 1, n - 1, n - 2, n - 2>>), BigMul(m2, BigMul(m2, m2))))

\* the sum of |d[i]|^k over the indices i in idx, as an exact natural
PowerSum(d, idx, k) == BigSum([i \in DOMAIN d |-> IF i \in idx THEN BigProd([e \in 1..k |-> Abs(d[i])]) ELSE <<>>])

NoStats == [present |-> FALSE]

\* the deviations n * v - sum divided by their greatest common divisor g
Reduced(dev, g) == [i \in DOMAIN dev |-> IF g = 0 THEN 0 ELSE dev[i] \div g]

\* the record returned by computeColumnStats for the sorted values: mean and
\* std are held as sum / n and as the reduced deviations d with their second
\* central sum m2; the fields skewness, isNormal, isSymmetric and mode are
\* the operators below
StatsShape(values, n, sum, g, d) ==
    [present |-> TRUE,
     n |-> n,
     sum |-> sum,
     values |-> values,
     median |-> IF n % 2 = 0 THEN ExactDiv(values[n \div 2] + values[(n \div 2) + 1], 2) ELSE values[(n \div 2) + 1],
     stdZero |-> g = 0,
     devGcd |-> g,
     dev |-> d,
     m2 |-> PowerSum(d, 1..n, 2),
     min |-> values[1],
     max |-> values[n],
     q1 |-> values[(n \div 4) + 1],
     q3 |-> values[((3 * n) \div 4) + 1],
     iqr |-> values[((3 * n) \div 4) + 1] - values[(n \div 4) + 1],
     skewNaN |-> n > 2 /\ g = 0]

\* the third central sum of the reduced deviations, in absolute value
ThirdMoment(stats) ==
    BigDiff(PowerSum(stats.dev, {i \in 1..stats.n : stats.dev[i] > 0}, 3),
            PowerSum(stats.dev, {i \in 1..stats.n : stats.dev[i] < 0}, 3))

\* Math.abs(skewness) < bound, skewness being 0 for n <= 2 and NaN for a zero std
SkewWithin(stats, den) ==
    IF stats.n <= 2 THEN TRUE ELSE IF stats.stdZero THEN FALSE ELSE SkewBelow(stats.n, stats.m2, ThirdMoment(stats), den)

\* Math.abs(skewness) < 0.5
isNormal(stats) == SkewWithin(stats, 2)

\* Math.abs(skewness) < 1
isSymmetric(stats) == SkewWithin(stats, 1)

\* modeVal !== undefined ? parseFloat(modeVal) : mean
StatsMode(stats) == ParseFloat(FirstMostFrequent([i \in 1..stats.n |-> NumToStr(stats.values[i])])).v

StatsDev(values, n, sum, dev) == StatsShape(values, n, sum, GcdAll(dev, 1..n), Reduced(dev, GcdAll(dev, 1..n)))

\* the statistics of the sorted numeric values of a column
StatsSorted(values) ==
    IF values = <<>> THEN NoStats
    ELSE StatsDev(values, Len(values), SeqSum(values), [i \in DOMAIN values |-> Len(values) * values[i] - SeqSum(values)])

computeColumnStats(data, column) == StatsSorted(SortNum(NumericValues(data, column)))

\* Math.round(stats.mean * 100) / 100
MeanRounded(stats) == RoundDiv(stats.sum, stats.n * (Scale \div 100)) * (Scale \div 100)

\* Math.round(x * 100) / 100 of a value x already held in fixed point
Round2(x) == RoundDiv(x, Scale \div 100) * (Scale \div 100)

(***************************************************************************)
(* Duplicates and outlier detection (part_007)                             *)
(***************************************************************************)
\* removeDuplicates that stops at the first duplicate it finds
RECURSIVE removeDuplicatesRows_once(_)
removeDuplicatesRows_once(data) ==
    IF data = <<>> THEN <<>>
    ELSE IF \E i \in 1..(Len(data) - 1) : JsonKey(data[i]) = JsonKey(data[Len(data)])
         THEN SubSeq(data, 1, Len(data) - 1)
         ELSE Append(removeDuplicatesRows_once(SubSeq(data, 1, Len(data) - 1)), data[Len(data)])

RECURSIVE removeDuplicatesRows(_)
removeDuplicatesRows(data) ==
    IF data = <<>> THEN <<>>
    ELSE LET init == SubSeq(data, 1, Len(data) - 1)
             row == data[Len(data)]
         IN  IF \E i \in DOMAIN init : JsonKey(init[i]) = JsonKey(row)
             THEN removeDuplicatesRows(init)
             ELSE Append(removeDuplicatesRows(init), row)

removeDuplicates(data) ==
    LET cleaned == removeDuplicatesRows(data)
    IN  [cleaned |-> cleaned, removed |-> Len(data) - Len(cleaned)]

\* !isNaN(val) && (val < lowerBound || val > upperBound)
IsOutside(v, lowerBound, upperBound) == v.ok /\ (v.v < lowerBound \/ v.v > upperBound)

DetectFrom(data, column, stats) ==
    LET lowerBound == stats.q1 - ExactDiv(3 * stats.iqr, 2)
        upperBound == stats.q3 + ExactDiv(3 * stats.iqr, 2)
    IN  IF ~stats.present THEN [outlierIndices |-> <<>>, lowerBound |-> 0, upperBound |-> 0]
        ELSE [outlierIndices |-> SelectSeq([i \in DOMAIN data |-> i - 1],
                                           LAMBDA z : IsOutside(ToNumber(Get(data[z + 1], column)), lowerBound, upperBound)),
              lowerBound |-> lowerBound, upperBound |-> upperBound]

detectOutliersIQR(data, column) == DetectFrom(data, column, computeColumnStats(data, column))

(***************************************************************************)
(* Missing value imputation (part_007)                                     *)
(***************************************************************************)
\* v === null || v === undefined || v === '' || (typeof v === 'number' && isNaN(v))
IsMissing(v) == ~IsPresent(v)

imputeByConstant(data, column, constant) ==
    [i \in DOMAIN data |->
        IF IsMissing(Get(data[i], column)) THEN SetKey(data[i], column, constant) ELSE data[i]]

\* if (!stats) return data; the mean is rounded to two decimals
MeanFrom(data, column, stats) ==
    IF ~stats.present THEN data ELSE imputeByConstant(data, column, Num(MeanRounded(stats)))

imputeByMean(data, column) == MeanFrom(data, column, computeColumnStats(data, column))

MedianFrom(data, column, stats) ==
    IF ~stats.present THEN data ELSE imputeByConstant(data, column, Num(stats.median))

imputeByMedian(data, column) == MedianFrom(data, column, computeColumnStats(data, column))

\* the keys of the frequency table of imputeByMode: String(v) of the present values
PresentKeys(values) == [i \in DOMAIN values |-> ToStr(values[i])]

\* the most frequent key, '' for a column without any present value
ModeOf(keys) == IF keys = <<>> THEN "" ELSE FirstMostFrequent(keys)

imputeByMode(data, column) ==
    imputeByConstant(data, column, Str(ModeOf(PresentKeys(SelectSeq(Column(data, column), IsPresent)))))

\* imputeByMode throws: Math.max(...Object.values(freq))
ModeThrows(data, column) == Cardinality({ToStr(v) : v \in Range(SelectSeq(Column(data, column), IsPresent))}) > ArgLimit

\* data.filter(r => r[col] !== null && r[col] !== undefined && r[col] !== '')
dropMissing(data, column) == SelectSeq(data, LAMBDA r : IsPresent(Get(r, column)))

(***************************************************************************)
(* Outlier treatment (part_007)                                            *)
(***************************************************************************)
\* a row with the number v of its cell brought back between lower and upper
CapRow(row, column, v, lower, upper) ==
    IF ~v.ok THEN row
    ELSE IF v.v < lower THEN SetKey(row, column, Num(lower))
    ELSE IF v.v > upper THEN SetKey(row, column, Num(upper))
    ELSE row

CapFrom(data, column, det) ==
    [i \in DOMAIN data |-> CapRow(data[i], column, ToNumber(Get(data[i], column)), det.lowerBound, det.upperBound)]

treatOutliersIQR(data, column) == CapFrom(data, column, detectOutliersIQR(data, column))

LowerPerc == 5

UpperPerc == 95

\* data.map(r => Number(r[column])).filter(v => !isNaN(v))
NumbersOf(data, column) ==
    FiniteValues(SelectSeq([i \in DOMAIN data |-> ToNumber(Get(data[i], column))], LAMBDA x : x.ok))

WinsorFrom(data, column, values) ==
    IF values = <<>> THEN data
    ELSE [i \in DOMAIN data |->
            CapRow(data[i], column, ToNumber(Get(data[i], column)),
                   values[((Len(values) * LowerPerc) \div 100) + 1],
                   values[((Len(values) * UpperPerc) \div 100) + 1])]

treatOutliersWinsor(data, column) == WinsorFrom(data, column, SortNum(NumbersOf(data, column)))

ZThreshold == 3

\* Math.abs((v - stats.mean) / stats.std) > threshold, for a non-zero std:
\*   (n*v - sum)^2 * n > threshold^2 * sum of (n*v_i - sum)^2
ZScoreAbove(stats, v, threshold) ==
    LET dev == Abs(stats.n * v - stats.sum)
    IN  BigLess(BigMul(BigProd(<<threshold, threshold, stats.devGcd, stats.devGcd>>), stats.m2),
                BigProd(<<dev, dev, stats.n>>))

ZScoreRow(row, column, v, stats) ==
    IF ~v.ok THEN row
    ELSE IF ZScoreAbove(stats, v.v, ZThreshold)
         THEN SetKey(row, column, Num(IF isNormal(stats) THEN MeanRounded(stats) ELSE Round2(stats.median)))
    ELSE row

ZScoreFrom(data, column, stats) ==
    IF ~stats.present \/ stats.stdZero THEN data
    ELSE [i \in DOMAIN data |-> ZScoreRow(data[i], column, ToNumber(Get(data[i], column)), stats)]

treatOutliersZScore(data, column) == ZScoreFrom(data, column, computeColumnStats(data, column))

(***************************************************************************)
(* Encoding (part_007)                                                     *)
(***************************************************************************)
RECURSIVE AddIndicators(_, _, _)
\* for (const val of uniqueVals) result = result.map(row => ({ ...row, [col_val]: ... }))
AddIndicators(rows, col, vals) ==
    IF vals = <<>> THEN rows
    ELSE AddIndicators([i \in DOMAIN rows |->
                           SetKey(rows[i], col \o "_" \o Head(vals),
                                  IF ToStrOrEmpty(Get(rows[i], col)) = Head(vals) THEN NumI(1) ELSE NumI(0))],
                       col, Tail(vals))

oneHotEncode(data, col) ==
    LET uniqueVals == Distinct([i \in DOMAIN data |-> ToStrOrEmpty(Get(data[i], col))])
        withCols == AddIndicators(data, col, uniqueVals)
    IN  [data |-> [i \in DOMAIN withCols |-> DelKey(withCols[i], col)],
         newColumns |-> [j \in DOMAIN uniqueVals |-> col \o "_" \o uniqueVals[j]]]

\* mapping[key] ?? -1, where order.forEach((val, i) => { mapping[val] = i; })
RankIn(order, key) ==
    IF key \in Range(order)
    THEN NumI((CHOOSE i \in DOMAIN order : order[i] = key /\ \A j \in DOMAIN order : order[j] = key => j <= i) - 1)
    ELSE NumI(-1)

ordinalEncode(data, column, order) ==
    [i \in DOMAIN data |-> SetKey(data[i], column, RankIn(order, ToStr(Get(data[i], column))))]

labelEncode(data, column) ==
    LET uniqueVals == Distinct([i \in DOMAIN data |-> ToStrOrEmpty(Get(data[i], column))])
    IN  [data |-> [i \in DOMAIN data |-> SetKey(data[i], column, RankIn(uniqueVals, ToStr(Get(data[i], column))))],
         mapping |-> uniqueVals]

(***************************************************************************)
(* Scaling (part_007)                                                      *)
(***************************************************************************)
RECURSIVE DecimalDigits(_, _, _)
\* the first k decimal digits of r / b (0 <= r < b) as a k-digit integer, and the remainder
DecimalDigits(r, b, k) ==
    IF k = 0 THEN [digits |-> 0, rem |-> r]
    ELSE LET prev == DecimalDigits(r, b, k - 1)
         IN  [digits |-> 10 * prev.digits + ((10 * prev.rem) \div b), rem |-> (10 * prev.rem) % b]

\* Math.round((a / b) * 10000) / 10000 in fixed point, for b > 0
RoundRatio(a, b) ==
    LET dd == DecimalDigits(a % b, b, 4)
    IN  ((a \div b) * Decimals + dd.digits + (IF 2 * dd.rem >= b THEN 1 ELSE 0)) * (Scale \div Decimals)

\* Math.round(((v - stats.mean) / stats.std) * 10000) / 10000 in fixed point, for
\* a non-zero std:  |v - mean| / std = sqrt((n*v - sum)^2 * n / sum of (n*v_i - sum)^2)
\* the score of a deviation dev = n*v - sum, given m = the floor of
\* sqrt(num / den) with num / den = (2 * Decimals * |v - mean| / std)^2
ScoreOfRoot(dev, num, den, m) ==
    (IF dev >= 0 THEN (m + 1) \div 2
     ELSE IF m % 2 = 0 THEN -(m \div 2)
     ELSE IF BigMul(BigProd(<<m, m>>), den) = num THEN -((m - 1) \div 2)
     ELSE -((m + 1) \div 2)) * (Scale \div Decimals)

ScoreOfRatio(dev, num, den) == ScoreOfRoot(dev, num, den, FloorSqrtRatio(num, den))

StandardScore(stats, v) ==
    ScoreOfRatio(stats.n * v - stats.sum,
                 BigProd(<<4, Decimals, Decimals, Abs(stats.n * v - stats.sum), Abs(stats.n * v - stats.sum), stats.n>>),
                 BigMul(BigProd(<<stats.devGcd, stats.devGcd>>), stats.m2))

\* a row with the number v of its cell replaced by Math.round(((v - from) / by) * 10000) / 10000
RatioRow(row, col, v, from, by) == IF v.ok THEN SetKey(row, col, Num(RoundRatio(v.v - from, by))) ELSE row

MinMaxFrom(data, col, vals) ==
    LET min == CHOOSE x \in vals : \A y \in vals : x <= y
        max == CHOOSE x \in vals : \A y \in vals : y <= x
    IN  IF vals = {} \/ max - min = 0 THEN data
        ELSE [i \in DOMAIN data |-> RatioRow(data[i], col, ToNumber(Get(data[i], col)), min, max - min)]

minMaxScale(data, col) == MinMaxFrom(data, col, Range(NumbersOf(data, col)))

\* minMaxScale throws: Math.min(...values)
MinMaxThrows(data, col) == Cardinality({i \in DOMAIN data : ToNumber(Get(data[i], col)).ok}) > ArgLimit

StandardRow(row, col, v, stats) == IF v.ok THEN SetKey(row, col, Num(StandardScore(stats, v.v))) ELSE row

StandardFrom(data, col, stats) ==
    IF ~stats.present \/ stats.stdZero THEN data
    ELSE [i \in DOMAIN data |-> StandardRow(data[i], col, ToNumber(Get(data[i], col)), stats)]

standardScale(data, col) == StandardFrom(data, col, computeColumnStats(data, col))

RobustFrom(data, col, stats) ==
    IF ~stats.present \/ stats.iqr = 0 THEN data
    ELSE [i \in DOMAIN data |-> RatioRow(data[i], col, ToNumber(Get(data[i], col)), stats.median, stats.iqr)]

robustScale(data, col) == RobustFrom(data, col, computeColumnStats(data, col))

(***************************************************************************)
(* Column metadata (part_007: buildDatasetInfo, detectColumnType)          *)
(***************************************************************************)
SampleLimit == 100

SampleShown == 5

\* a percentage num/den * 100 kept as the exact fraction (den = 0: NaN)
Pct(count, total) == [num |-> count * 100, den |-> total]

PctAtLeast(p, k) == p.den > 0 /\ p.num >= k * p.den

PctAbove(p, k) == p.den > 0 /\ p.num > k * p.den

PctBelow(p, k) == p.den > 0 /\ p.num < k * p.den

Take(sq, k) == SubSeq(sq, 1, IF Len(sq) < k THEN Len(sq) ELSE k)

\* typeof v === 'number' || (typeof v === 'string' && !isNaN(Number(v)) && v.trim() !== '')
IsNumericLike(v) == v.t = "num" \/ (v.t = "str" /\ v.s # "" /\ StrToNumber(v.s).ok)

\* typeof v === 'boolean' || (typeof v === 'string' && ['true','false','0','1'].includes(v.toLowerCase()))
IsBoolLike(v) == v.t = "bool" \/ (v.t = "str" /\ ToLower(v.s) \in {"true", "false", "0", "1"})

\* count / total > 0.8
AboveFourFifths(count, total) == 5 * count > 4 * total

detectColumnType(values) ==
    LET sample == Take(values, SampleLimit)
        numericCount == Len(SelectSeq(sample, IsNumericLike))
        boolCount == Len(SelectSeq(sample, IsBoolLike))
    IN  IF values = <<>> THEN "unknown"
        ELSE IF AboveFourFifths(numericCount, Len(sample)) THEN "numeric"
        ELSE IF AboveFourFifths(boolCount, Len(sample)) THEN "boolean"
        ELSE "categorical"

UniqueCount(nonNull) == Cardinality({ToStr(nonNull[i]) : i \in DOMAIN nonNull})

buildDatasetInfo(data, headers) ==
    [loaded |-> TRUE,
     rows |-> Len(data),
     columns |-> Len(headers),
     columnInfo |-> [h \in DOMAIN headers |->
        LET values == Column(data, headers[h])
            nonNull == SelectSeq(values, IsPresent)
        IN  [name |-> headers[h],
             type |-> detectColumnType(nonNull),
             nullCount |-> Len(values) - Len(nonNull),
             nullPercentage |-> IF Len(data) > 0 THEN Pct(Len(values) - Len(nonNull), Len(data)) ELSE Pct(0, 1),
             uniqueCount |-> UniqueCount(nonNull),
             sampleValues |-> Take(nonNull, SampleShown)]],
     data |-> data,
     headers |-> headers]

\* useState<DatasetInfo | null>(null)
NoDataset == [loaded |-> FALSE, rows |-> 0, columns |-> 0, columnInfo |-> <<>>, data |-> <<>>, headers |-> <<>>]

\* dataset.columnInfo.find((c) => c.name === name)?.type || 'unknown'
TypeOf(columnInfo, name) ==
    IF \E i \in DOMAIN columnInfo : columnInfo[i].name = name
    THEN columnInfo[CHOOSE i \in DOMAIN columnInfo : columnInfo[i].name = name /\ \A j \in 1..(i - 1) : columnInfo[j].name # name].type
    ELSE "unknown"

(***************************************************************************)
(* Imported files: what parseFile hands to buildDatasetInfo                *)
(***************************************************************************)
MaxRows == 2

MkRow(headers, cells) == [i \in DOMAIN headers |-> [k |-> headers[i], v |-> cells[i]]]

\* a column of integers, 0 - 1 standing for a missing cell
Ints(xs) == [i \in DOMAIN xs |-> IF xs[i] = 0 - 1 THEN Null ELSE NumI(xs[i])]

Strs(xs) == [i \in DOMAIN xs |-> IF xs[i] = "" THEN Null ELSE Str(xs[i])]

\* the table whose columns are the given cell sequences
ByColumns(headers, cols) == [i \in DOMAIN cols[1] |-> [j \in DOMAIN headers |-> [k |-> headers[j], v |-> cols[j][i]]]]

MkFile(name, headers, data) == [name |-> name, ok |-> TRUE, headers |-> headers, data |-> data]

\* every table of 1..MaxRows rows over a numeric-looking and a text column
SmallHeaders == <<"age", "zone">>

SmallRows == {MkRow(SmallHeaders, <<NumI(7), Null>>), MkRow(SmallHeaders, <<Null, Str("a")>>)}

SmallFiles == {MkFile("small.csv", SmallHeaders, d) : d \in UNION {[1..n -> SmallRows] : n \in 1..MaxRows}}

ScenarioFiles ==
    { \* age 20% missing, city with 4 values, target with 2 values
      MkFile("e2e.csv", <<"age", "city", "target">>,
             ByColumns(<<"age", "city", "target">>,
                       <<Ints(<<20, 30, 0 - 1, 40, 50>>),
                         Strs(<<"paris", "lyon", "nice", "lille", "paris">>),
                         Strs(<<"yes", "no", "yes", "no", "yes">>)>>)),
      \* 1 missing cell in 11 rows (9.09%), symmetric, no outlier
      MkFile("mean.csv", <<"age">>, ByColumns(<<"age">>, <<Ints(<<1, 2, 3, 4, 5, 0 - 1, 6, 7, 8, 9, 10>>)>>)),
      \* 1 missing cell in 10 rows (exactly 10%)
      MkFile("ten.csv", <<"age">>, ByColumns(<<"age">>, <<Ints(<<1, 2, 3, 4, 5, 0 - 1, 6, 7, 8, 9>>)>>)),
      \* 2 missing cells in 5 rows (exactly 40%), and 3 in 5 (60%)
      MkFile("forty.csv", <<"age", "zone">>,
             ByColumns(<<"age", "zone">>, <<Ints(<<1, 2, 0 - 1, 3, 0 - 1>>), Strs(<<"a", "", "", "b", "">>)>>)),
      \* 16 distinct values
      MkFile("wide.json", <<"zone">>,
             ByColumns(<<"zone">>, <<Strs(<<"k", "b", "p", "d", "e", "f", "g", "h", "i", "j", "a", "l", "m", "n", "o", "c">>)>>)),
      \* a numeric column named like an indicator column of zone
      MkFile("collide.csv", <<"zone", "zone_a">>,
             ByColumns(<<"zone", "zone_a">>, <<Strs(<<"a", "b">>), Ints(<<3, 5>>)>>)),
      \* outliers: normal, symmetric, asymmetric
      MkFile("outliers.csv", <<"age", "income", "score">>,
             ByColumns(<<"age", "income", "score">>,
                       <<Ints(<<0, 1, 1, 1, 2>>), Ints(<<1, 0, 2, 4, 2>>), Ints(<<1, 1, 0, 1, 1>>)>>)),
      \* a boolean column with a missing cell, a duplicated row
      MkFile("flags.json", <<"Class", "flag">>,
             ByColumns(<<"Class", "flag">>,
                       <<Strs(<<"x", "w", "x", "w", "w">>), <<Bool(TRUE), Bool(FALSE), Bool(TRUE), Null, Null>>>>)),
      \* dropping the rows without key leaves val without any number
      MkFile("sparse.csv", <<"key", "val">>,
             ByColumns(<<"key", "val">>, <<Strs(<<"", "", "", "k", "m">>), Ints(<<1, 2, 3, 0 - 1, 0 - 1>>)>>)),
      \* the missing age counts as 0 for the outlier detection until it is imputed
      MkFile("late.csv", <<"age", "income">>,
             ByColumns(<<"age", "income">>,
                       <<Ints(<<10, 10, 11, 12, 12, 0 - 1>>), Ints(<<0, 1, 1, 1, 2, 1>>)>>)),
      \* more distinct ages than one call takes as arguments
      MkFile("big.csv", <<"zone", "age", "score">>,
             ByColumns(<<"zone", "age", "score">>,
                       <<Strs(<<"a", "", "b", "a", "b", "a", "b", "a", "b", "a", "b", "a", "b", "a">>),
                         Ints(<<1, 2, 3, 4, 5, 6, 7, 8, 9, 10, 11, 12, 13, 14>>),
                         Ints(<<0, 1, 1, 1, 2, 0, 1, 1, 1, 2, 0, 1, 1, 1>>)>>)),
      \* a duplicated row: zone is missing in 2 rows of 4 (50%), in 1 of 3 (33.3%) once deduplicated
      MkFile("twice.csv", <<"zone">>, ByColumns(<<"zone">>, <<Strs(<<"", "", "a", "b">>)>>)),
      \* an extension parseFile rejects
      [name |-> "notes.txt", ok |-> FALSE, headers |-> <<>>, data |-> <<>>] }

Files == SmallFiles \cup ScenarioFiles

(***************************************************************************)
(* The pipeline page (part_001: PreprocessingPipeline)                     *)
(***************************************************************************)
UPLOAD == 0
OVERVIEW == 1
AUTO_PILOT == 2
DUPLICATES == 3
MISSING == 4
OUTLIERS == 5
ENCODING == 6
SCALING == 7
SELECTION == 8
DASHBOARD == 9

\* an operation starts only while the journal holds fewer entries than this
MaxJournal == 1

VARIABLES
    currentStep,        \* useState(PipelineStep.UPLOAD)
    dataset,            \* useState<DatasetInfo | null>(null)
    originalData,       \* useState<DataRow[]>([])
    transformations,    \* useState<string[]>([]): the journal
    isLoading,          \* useState(false)
    fileName,           \* useState('')
    isHistorySession,   \* useState(false)
    pc,                 \* where runAutomation stands: "idle" or the phase it is in
    idx,                \* the column of the phase's list it handles next
    currentData,        \* runAutomation: let currentData
    newTransformations, \* runAutomation: let newTransformations
    touched,            \* history: the columns the Encoding phase of this run wrote
    lastRun,            \* history: the input and the result of the last completed run
    args,               \* a direct call of a dataProcessing function: its arguments
    ret,                \* a direct call of a dataProcessing function: what it returned
    sessions,           \* the saved sessions (storageService, sessionsApi)
    datasetId,          \* API page: useState<string | null>(null)
    requests,           \* API page: the requests sent and not yet answered
    server              \* API page: the operations the backend has applied to each dataset

vars == <<currentStep, dataset, originalData, transformations, isLoading, fileName,
          isHistorySession, pc, idx, currentData, newTransformations, touched, lastRun,
          args, ret, sessions, datasetId, requests, server>>

pageVars == <<currentStep, dataset, originalData, transformations, fileName, isHistorySession>>

runVars == <<pc, idx, currentData, newTransformations, touched, lastRun>>

libVars == <<args, ret>>

apiVars == <<datasetId, requests, server>>

\* what the handlers of the local page never touch
offPage == <<libVars, apiVars>>

\* datasetId === null
NoId == 0

\* no direct call
NoArgs == [data |-> <<>>, column |-> ""]

NoCall == [op |-> "none"]

\* a journal line; the code formats it as text that is never parsed again:
\*   `Autopilot: ${col} (${phase}) -> ${method}`, `${col}: imputation par ${method}`, ...
Entry(src, phase, col, method, count) == [src |-> src, phase |-> phase, col |-> col, method |-> method, count |-> count]

Init ==
    /\ currentStep = UPLOAD
    /\ dataset = NoDataset
    /\ originalData = <<>>
    /\ transformations = <<>>
    /\ isLoading = FALSE
    /\ fileName = ""
    /\ isHistorySession = FALSE
    /\ pc = "idle"
    /\ idx = 1
    /\ currentData = <<>>
    /\ newTransformations = <<>>
    /\ touched = {}
    /\ lastRun = [done |-> FALSE]
    /\ args = NoArgs
    /\ ret = NoCall
    /\ sessions = <<>>
    /\ datasetId = NoId
    /\ requests = {}
    /\ server = <<>>

\* handleFileUpload, called by UploadStep (rendered at the UPLOAD step)
\* buildDatasetInfo(data, headers) as handleFileUpload calls it, for every
\* file that parseFile accepts
Imported == [file \in {f \in Files : f.ok} |-> buildDatasetInfo(file.data, file.headers)]

HandleFileUpload(file) ==
    /\ pc = "idle"
    /\ currentStep = UPLOAD
    /\ IF file.ok
       THEN /\ dataset' = Imported[file]
            /\ originalData' = file.data
            /\ fileName' = file.name
            /\ transformations' = <<>>
            /\ isHistorySession' = FALSE
            /\ currentStep' = OVERVIEW
       ELSE UNCHANGED pageVars
    /\ isLoading' = FALSE
    /\ UNCHANGED <<runVars, sessions, offPage>>

\* goToStep taking any step, in history mode too
GoToStep_any(step) ==
    /\ pc = "idle"
    /\ currentStep' = step
    /\ UNCHANGED <<dataset, originalData, transformations, isLoading, fileName, isHistorySession>>
    /\ UNCHANGED <<runVars, sessions, offPage>>

\* goToStep, called by the step buttons (disabled beyond the current step and in history mode)
GoToStep(step) ==
    /\ pc = "idle"
    /\ step <= currentStep
    /\ ~isHistorySession
    /\ IF step <= currentStep \/ (step = currentStep + 1 /\ dataset.loaded)
       THEN currentStep' = step
       ELSE UNCHANGED currentStep
    /\ UNCHANGED <<dataset, originalData, transformations, isLoading, fileName, isHistorySession>>
    /\ UNCHANGED <<runVars, sessions, offPage>>

\* nextStep, called by the "continue" button of the steps OVERVIEW .. SELECTION
NextStep ==
    /\ pc = "idle"
    /\ currentStep \in OVERVIEW..SELECTION
    /\ currentStep = AUTO_PILOT \/ dataset.loaded
    /\ IF currentStep < DASHBOARD THEN currentStep' = currentStep + 1 ELSE UNCHANGED currentStep
    /\ UNCHANGED <<dataset, originalData, transformations, isLoading, fileName, isHistorySession>>
    /\ UNCHANGED <<runVars, sessions, offPage>>

\* the column metadata updateDataset derives for newData
UpdatedColumnInfo(ds, newData, headers) ==
    [h \in DOMAIN headers |->
        LET values == Column(newData, headers[h])
            nonNull == SelectSeq(values, IsPresent)
        IN  [name |-> headers[h],
             type |-> TypeOf(ds.columnInfo, headers[h]),
             nullCount |-> Len(values) - Len(nonNull),
             nullPercentage |-> IF Len(newData) > 0 THEN Pct(Len(values) - Len(nonNull), Len(newData)) ELSE Pct(0, 1),
             uniqueCount |-> UniqueCount(nonNull),
             sampleValues |-> Take(nonNull, SampleShown)]]

AppendEntry_front(prev, transformation) == <<transformation>> \o prev

\* [...prev, transformation]
AppendEntry(prev, transformation) == Append(prev, transformation)

\* updateDataset(newData, transformation), the onUpdate of every manual step
updateDataset(newData, transformation) ==
    /\ dataset.loaded
    /\ LET headers == IF Len(newData) > 0 THEN Keys(newData[1]) ELSE dataset.headers
       IN  dataset' = [loaded |-> TRUE,
                       rows |-> Len(newData),
                       columns |-> Len(headers),
                       columnInfo |-> UpdatedColumnInfo(dataset, newData, headers),
                       data |-> newData,
                       headers |-> headers]
    /\ transformations' = AppendEntry(transformations, transformation)
    /\ UNCHANGED <<currentStep, originalData, isLoading, fileName, isHistorySession>>
    /\ UNCHANGED <<runVars, sessions, offPage>>

\* a manual step is on screen; at most MaxJournal manual operations per import
ManualReady(step) ==
    /\ pc = "idle"
    /\ currentStep = step
    /\ dataset.loaded
    /\ Len(SelectSeq(transformations, LAMBDA e : e.src = "Manual")) < MaxJournal

ColumnsOfType(ds, type) == SelectSeq(ds.columnInfo, LAMBDA c : c.type = type)

\* dataset.columnInfo.filter(c => c.type === 'numeric').map(c => c.name)
NumericCols(ds) == LET cs == ColumnsOfType(ds, "numeric") IN [i \in DOMAIN cs |-> cs[i].name]

\* dataset.columnInfo.filter(c => c.type === 'categorical')
CatCols(ds) == ColumnsOfType(ds, "categorical")

\* dataset.columnInfo.filter(c => c.nullCount > 0)
MissingCols(ds) == SelectSeq(ds.columnInfo, LAMBDA c : c.nullCount > 0)

(***************************************************************************)
(* The manual steps (part_001: DuplicatesStep .. SelectionStep)            *)
(***************************************************************************)
\* MissingValuesStep.handleApply / runAutomation: switch (method)
ApplyMissingMethod(method, data, column) ==
    CASE method = "mean" -> imputeByMean(data, column)
      [] method = "median" -> imputeByMedian(data, column)
      [] method = "mode" -> imputeByMode(data, column)
      [] method = "drop" -> dropMissing(data, column)

ApplyOutlierMethod(method, data, column) ==
    CASE method = "zscore" -> treatOutliersZScore(data, column)
      [] method = "iqr" -> treatOutliersIQR(data, column)
      [] method = "winsor" -> treatOutliersWinsor(data, column)

ApplyScalingMethod(method, data, column) ==
    CASE method = "standard" -> standardScale(data, column)
      [] method = "robust" -> robustScale(data, column)
      [] method = "minmax" -> minMaxScale(data, column)

\* the operator behind a method throws before it returns a table
MethodThrows(method, data, column) ==
    CASE method \in {"mean", "median", "iqr", "zscore", "standard", "robust"} -> StatsThrows(data, column)
      [] method = "mode" -> ModeThrows(data, column)
      [] method = "minmax" -> MinMaxThrows(data, column)
      [] OTHER -> FALSE

\* DuplicatesStep.handleApply (the button shows once duplicates were detected)
ApplyDuplicates ==
    /\ ManualReady(DUPLICATES)
    /\ LET result == removeDuplicates(dataset.data)
       IN  /\ result.removed > 0
           /\ updateDataset(result.cleaned, Entry("Manual", "Duplicates", "", "remove", result.removed))

\* MissingValuesStep.handleApply with the method selected for the column
ApplyMissing(i, method) ==
    /\ ManualReady(MISSING)
    /\ i \in DOMAIN MissingCols(dataset)
    /\ LET colName == MissingCols(dataset)[i].name
       IN  /\ ~MethodThrows(method, dataset.data, colName)
           /\ updateDataset(ApplyMissingMethod(method, dataset.data, colName), Entry("Manual", "Missing", colName, method, 0))

\* OutliersStep.handleApply
ApplyOutliers(i, method) ==
    /\ ManualReady(OUTLIERS)
    /\ i \in DOMAIN NumericCols(dataset)
    /\ LET colName == NumericCols(dataset)[i]
       IN  /\ ~MethodThrows(method, dataset.data, colName)
           /\ updateDataset(ApplyOutlierMethod(method, dataset.data, colName), Entry("Manual", "Outliers", colName, method, 0))

\* EncodingStep.handleApply for the types nominal and target
ApplyEncoding(i, type) ==
    /\ ManualReady(ENCODING)
    /\ i \in DOMAIN CatCols(dataset)
    /\ LET colName == CatCols(dataset)[i].name
       IN  IF type = "nominal"
           THEN LET result == oneHotEncode(dataset.data, colName)
                IN  updateDataset(result.data, Entry("Manual", "Encoding", colName, "OneHotEncoder", Len(result.newColumns)))
           ELSE updateDataset(labelEncode(dataset.data, colName).data, Entry("Manual", "Encoding", colName, "LabelEncoder", 0))

\* ScalingStep.handleApply
ApplyScaling(i, method) ==
    /\ ManualReady(SCALING)
    /\ i \in DOMAIN NumericCols(dataset)
    /\ LET colName == NumericCols(dataset)[i]
       IN  /\ ~MethodThrows(method, dataset.data, colName)
           /\ updateDataset(ApplyScalingMethod(method, dataset.data, colName), Entry("Manual", "Scaling", colName, method, 0))

\* SelectionStep.handleApply after the column at position i was unticked
ApplySelection(i) ==
    /\ ManualReady(SELECTION)
    /\ i \in DOMAIN dataset.headers
    /\ LET cols == SelectSeq(dataset.headers, LAMBDA c : c # dataset.headers[i])
           newData == [r \in DOMAIN dataset.data |-> [j \in DOMAIN cols |-> [k |-> cols[j], v |-> Get(dataset.data[r], cols[j])]]]
       IN  updateDataset(newData, Entry("Manual", "Selection", "", "select", Len(cols)))

(***************************************************************************)
(* The autopilot (part_001: runAutomation)                                 *)
(***************************************************************************)
DropThreshold == 40

MeanThreshold == 10

HighCardinality == 15

TargetKeywords == {"target", "label", "outcome", "y", "class", "churn", "survived", "price_range"}

\* the method chosen from the column's statistics (none for a column that
\* is not numeric) and the indices of its IQR outliers
MissingChoice(col, stats, outliers) ==
    IF PctAbove(col.nullPercentage, DropThreshold) THEN "drop"
    ELSE IF col.type = "categorical" THEN "mode"
    ELSE IF stats.present
         THEN IF isSymmetric(stats) /\ Len(outliers) = 0 /\ PctBelow(col.nullPercentage, MeanThreshold) THEN "mean" ELSE "median"
    ELSE "mode"

\* 2. Missing Values: the method chosen for the columnInfo entry col
MissingMethod(col, data) ==
    IF col.type = "numeric"
    THEN MissingChoice(col, computeColumnStats(data, col.name), detectOutliersIQR(data, col.name).outlierIndices)
    ELSE MissingChoice(col, NoStats, <<>>)

OutlierChoice(stats, outliers) ==
    IF ~stats.present THEN "skip"
    ELSE IF Len(outliers.outlierIndices) = 0 THEN "skip"
    ELSE IF isNormal(stats) THEN "zscore"
    ELSE IF isSymmetric(stats) THEN "iqr"
    ELSE "winsor"

OutlierMethod_stale(data, colName) ==
    OutlierChoice(computeColumnStats(dataset.data, colName), detectOutliersIQR(dataset.data, colName))

\* 3. Outliers: the treatment chosen for a numeric column, "skip" for none
OutlierMethod(data, colName) ==
    OutlierChoice(computeColumnStats(data, colName), detectOutliersIQR(data, colName))

EncodingMethod_exact(col) ==
    IF ToLower(col.name) \in TargetKeywords THEN "label"
    ELSE IF col.uniqueCount > HighCardinality THEN "ordinal"
    ELSE "onehot"

\* 4. Encoding: the encoder chosen for the columnInfo entry col
EncodingMethod(col) ==
    LET name == ToLower(col.name)
        targetKey == \E k \in TargetKeywords : Includes(name, k)
    IN  IF targetKey THEN "label"
        ELSE IF col.uniqueCount > HighCardinality THEN "ordinal"
        ELSE "onehot"

ScalingChoice(stats, outliers) ==
    IF ~stats.present THEN "skip"
    ELSE IF isNormal(stats) /\ Len(outliers) = 0 THEN "standard"
    ELSE IF Len(outliers) > 0 THEN "robust"
    ELSE "minmax"

ScalingMethod_stale(data, colName) ==
    ScalingChoice(computeColumnStats(dataset.data, colName), detectOutliersIQR(dataset.data, colName).outlierIndices)

\* 5. Scaling: the scaler chosen for a numeric column, "skip" for none
ScalingMethod(data, colName) ==
    ScalingChoice(computeColumnStats(data, colName), detectOutliersIQR(data, colName).outlierIndices)

\* Array.from(new Set(currentData.map(r => String(r[col.name])))).sort()
AutoOrder(data, colName) == SortStr(Distinct([i \in DOMAIN data |-> ToStr(Get(data[i], colName))]))

PhaseOrder_swapped == <<"duplicates", "outliers", "missing", "encoding", "scaling", "final">>

\* the phases in the order runAutomation goes through them
PhaseOrder == <<"duplicates", "missing", "outliers", "encoding", "scaling", "final">>

PhaseRank(p) == CHOOSE i \in DOMAIN PhaseOrder : PhaseOrder[i] = p

\* the length of the column list a phase iterates over
PhaseLen(p) ==
    CASE p = "missing" -> Len(MissingCols(dataset))
      [] p = "outliers" -> Len(NumericCols(dataset))
      [] p = "encoding" -> Len(CatCols(dataset))
      [] p = "scaling" -> Len(NumericCols(dataset))
      [] OTHER -> 0

MethodLabel(method) ==
    CASE method = "zscore" -> "Z-Score"
      [] method = "iqr" -> "IQR"
      [] method = "winsor" -> "Winsorization"
      [] method = "label" -> "Label"
      [] method = "ordinal" -> "Ordinal (Auto-order)"
      [] method = "onehot" -> "OneHot"
      [] method = "standard" -> "Standard"
      [] method = "robust" -> "Robust"
      [] method = "minmax" -> "MinMax"
      [] method = "mean" -> "MEAN"
      [] method = "median" -> "MEDIAN"
      [] method = "mode" -> "MODE"
      [] method = "drop" -> "DROP"

\* the turn of the forEach for the current column throws
TurnThrows ==
    /\ pc \in {"missing", "outliers", "scaling"}
    /\ idx <= PhaseLen(pc)
    /\ CASE pc = "missing" ->
              \E col \in {MissingCols(dataset)[idx]} :
                  \/ col.type = "numeric" /\ StatsThrows(currentData, col.name)
                  \/ MethodThrows(MissingMethod(col, currentData), currentData, col.name)
         [] pc = "outliers" -> StatsThrows(currentData, NumericCols(dataset)[idx])
         [] pc = "scaling" ->
              \E colName \in {NumericCols(dataset)[idx]} :
                  \/ StatsThrows(currentData, colName)
                  \/ MethodThrows(ScalingMethod(currentData, colName), currentData, colName)

\* an operator throws: the catch block of runAutomation, then its finally block
AutoThrow ==
    /\ TurnThrows
    /\ isLoading' = FALSE
    /\ pc' = "idle"
    /\ idx' = 1
    /\ currentData' = <<>>
    /\ newTransformations' = <<>>
    /\ touched' = {}
    /\ UNCHANGED <<pageVars, lastRun, sessions, offPage>>

RunInput_imported == originalData

\* let currentData = [...dataset.data]
RunInput == dataset.data

\* runAutomation, called by the "auto" button of AutoPilotStep: up to the try block
RunAutomation ==
    /\ pc = "idle"
    /\ currentStep = AUTO_PILOT
    /\ Len(transformations) <= MaxJournal
    /\ dataset.loaded
    /\ isLoading' = TRUE
    /\ currentData' = RunInput
    /\ newTransformations' = <<>>
    /\ touched' = {}
    /\ pc' = "duplicates"
    /\ idx' = 1
    /\ UNCHANGED <<pageVars, lastRun, sessions, offPage>>

\* 1. Duplicates
AutoDuplicates ==
    /\ pc = "duplicates"
    /\ LET dupResult == removeDuplicates(currentData)
       IN  IF dupResult.removed > 0
           THEN /\ currentData' = dupResult.cleaned
                /\ newTransformations' = Append(newTransformations, Entry("Autopilot", "Duplicates", "", "remove", dupResult.removed))
           ELSE UNCHANGED <<currentData, newTransformations>>
    /\ pc' = PhaseOrder[PhaseRank(pc) + 1]
    /\ idx' = 1
    /\ UNCHANGED <<isLoading, touched>>
    /\ UNCHANGED <<pageVars, lastRun, sessions, offPage>>

\* the end of a forEach: on to the next phase
AutoAdvance ==
    /\ pc \in {"missing", "outliers", "encoding", "scaling"}
    /\ idx > PhaseLen(pc)
    /\ pc' = PhaseOrder[PhaseRank(pc) + 1]
    /\ idx' = 1
    /\ UNCHANGED <<isLoading, currentData, newTransformations, touched>>
    /\ UNCHANGED <<pageVars, lastRun, sessions, offPage>>

\* 2. Missing Values: one turn of the forEach
AutoMissing ==
    /\ pc = "missing"
    /\ idx <= PhaseLen(pc)
    /\ ~TurnThrows
    /\ \E col \in {MissingCols(dataset)[idx]} : \E method \in {MissingMethod(col, currentData)} :
           /\ currentData' = ApplyMissingMethod(method, currentData, col.name)
           /\ newTransformations' = Append(newTransformations, Entry("Autopilot", "Missing", col.name, MethodLabel(method), 0))
    /\ idx' = idx + 1
    /\ UNCHANGED <<pc, isLoading, touched>>
    /\ UNCHANGED <<pageVars, lastRun, sessions, offPage>>

\* 3. Outliers: one turn of the forEach
AutoOutliers ==
    /\ pc = "outliers"
    /\ idx <= PhaseLen(pc)
    /\ ~TurnThrows
    /\ \E colName \in {NumericCols(dataset)[idx]} : \E method \in {OutlierMethod(currentData, colName)} :
           IF method = "skip"
           THEN UNCHANGED <<currentData, newTransformations>>
           ELSE /\ currentData' = ApplyOutlierMethod(method, currentData, colName)
                /\ newTransformations' = Append(newTransformations, Entry("Autopilot", "Outliers", colName, MethodLabel(method), 0))
    /\ idx' = idx + 1
    /\ UNCHANGED <<pc, isLoading, touched>>
    /\ UNCHANGED <<pageVars, lastRun, sessions, offPage>>

\* 4. Encoding: one turn of the forEach
AutoEncoding ==
    /\ pc = "encoding"
    /\ idx <= PhaseLen(pc)
    /\ \E col \in {CatCols(dataset)[idx]} : \E method \in {EncodingMethod(col)} :
       \E oneHot \in {IF method = "onehot" THEN oneHotEncode(currentData, col.name) ELSE [data |-> <<>>, newColumns |-> <<>>]} :
           /\ currentData' =
                CASE method = "label" -> labelEncode(currentData, col.name).data
                  [] method = "ordinal" -> ordinalEncode(currentData, col.name, AutoOrder(currentData, col.name))
                  [] method = "onehot" -> oneHot.data
           /\ touched' = touched \cup (IF method = "onehot" THEN Range(oneHot.newColumns) ELSE {col.name})
           /\ newTransformations' = Append(newTransformations, Entry("Autopilot", "Encoding", col.name, MethodLabel(method), 0))
    /\ idx' = idx + 1
    /\ UNCHANGED <<pc, isLoading>>
    /\ UNCHANGED <<pageVars, lastRun, sessions, offPage>>

\* 5. Scaling: one turn of the forEach
AutoScaling ==
    /\ pc = "scaling"
    /\ idx <= PhaseLen(pc)
    /\ ~TurnThrows
    /\ \E colName \in {NumericCols(dataset)[idx]} : \E method \in {ScalingMethod(currentData, colName)} :
           IF method = "skip"
           THEN UNCHANGED <<currentData, newTransformations>>
           ELSE /\ currentData' = ApplyScalingMethod(method, currentData, colName)
                /\ newTransformations' = Append(newTransformations, Entry("Autopilot", "Scaling", colName, MethodLabel(method), 0))
    /\ idx' = idx + 1
    /\ UNCHANGED <<pc, isLoading, touched>>
    /\ UNCHANGED <<pageVars, lastRun, sessions, offPage>>

\* Final Update: the column metadata of the final table
FinalColumnInfo(data, finalHeaders) ==
    [h \in DOMAIN finalHeaders |->
        LET vals == Column(data, finalHeaders[h])
            nonNull == SelectSeq(vals, IsPresent)
        IN  [name |-> finalHeaders[h],
             type |-> IF nonNull # <<>> /\ ToNumber(nonNull[1]).ok THEN "numeric" ELSE "categorical",
             nullCount |-> Len(vals) - Len(nonNull),
             nullPercentage |-> Pct(Len(vals) - Len(nonNull), Len(data)),
             uniqueCount |-> UniqueCount(nonNull),
             sampleValues |-> Take(nonNull, SampleShown)]]

\* Final Update, then the finally block
FinalUpdate ==
    /\ pc = "final"
    /\ LET finalHeaders == IF Len(currentData) > 0 THEN Keys(currentData[1]) ELSE dataset.headers
       IN  dataset' = [loaded |-> TRUE,
                       rows |-> Len(currentData),
                       columns |-> Len(finalHeaders),
                       columnInfo |-> FinalColumnInfo(currentData, finalHeaders),
                       data |-> currentData,
                       headers |-> finalHeaders]
    /\ transformations' = transformations \o newTransformations
    /\ currentStep' = DASHBOARD
    /\ isLoading' = FALSE
    /\ pc' = "idle"
    /\ idx' = 1
    /\ currentData' = <<>>
    /\ newTransformations' = <<>>
    /\ touched' = {}
    /\ UNCHANGED <<originalData, fileName, isHistorySession>>
    /\ UNCHANGED <<sessions, offPage>>

AutoFinal == FinalUpdate /\ UNCHANGED lastRun

\* column metadata with the percentage in lowest terms
Normalised(columnInfo) ==
    [i \in DOMAIN columnInfo |->
        LET p == columnInfo[i].nullPercentage
            g == Gcd(p.num, p.den)
        IN  IF g = 0 THEN columnInfo[i]
            ELSE [columnInfo[i] EXCEPT !.nullPercentage = [num |-> p.num \div g, den |-> p.den \div g]]]

\* the end of a run, with the run's input and result kept for comparison
AutoFinalObserved ==
    /\ FinalUpdate
    /\ lastRun' = [done |-> TRUE,
                   rows |-> dataset.data,
                   columnInfo |-> Normalised(dataset.columnInfo),
                   result |-> dataset',
                   entries |-> newTransformations]

Next ==
    \/ \E file \in Files : HandleFileUpload(file)
    \/ \E step \in UPLOAD..DASHBOARD : GoToStep(step)
    \/ NextStep
    \/ ApplyDuplicates
    \/ \E i \in 1..3, method \in {"mean", "median", "mode", "drop"} : ApplyMissing(i, method)
    \/ \E i \in 1..3, method \in {"iqr", "winsor", "zscore"} : ApplyOutliers(i, method)
    \/ \E i \in 1..3, type \in {"nominal", "target"} : ApplyEncoding(i, type)
    \/ \E i \in 1..3, method \in {"minmax", "standard", "robust"} : ApplyScaling(i, method)
    \/ \E i \in 1..3 : ApplySelection(i)
    \/ RunAutomation
    \/ AutoDuplicates
    \/ AutoAdvance
    \/ AutoMissing
    \/ AutoOutliers
    \/ AutoEncoding
    \/ AutoScaling
    \/ AutoFinal
    \/ AutoThrow

Spec == Init /\ [][Next]_vars

\* imports of small files, the Duplicates step and autopilot runs, observed
NextObserved ==
    \/ \E file \in SmallFiles : HandleFileUpload(file)
    \/ \E step \in UPLOAD..DASHBOARD : GoToStep(step)
    \/ NextStep
    \/ ApplyDuplicates
    \/ RunAutomation
    \/ AutoDuplicates
    \/ AutoAdvance
    \/ AutoMissing
    \/ AutoOutliers
    \/ AutoEncoding
    \/ AutoScaling
    \/ AutoFinalObserved

SpecObserved == Init /\ [][NextObserved]_vars

(***************************************************************************)
(* The history of the local page (part_001: handleSaveAndExport,           *)
(* handleSelectSession); storageService keeps what saveSession is given    *)
(***************************************************************************)
\* sessions are saved only while the storage holds fewer sessions than this
MaxSessions == 1

\* handleSaveAndExport, called by DashboardView (rendered at the DASHBOARD step)
HandleSaveAndExport ==
    /\ pc = "idle"
    /\ currentStep = DASHBOARD
    /\ dataset.loaded
    /\ Len(sessions) < MaxSessions
    /\ sessions' = Append(sessions, [fileName |-> fileName,
                                     rowCount |-> dataset.rows,
                                     columnCount |-> dataset.columns,
                                     transformations |-> transformations,
                                     data |-> dataset.data])
    /\ UNCHANGED <<pageVars, isLoading, runVars, offPage>>

\* handleSelectSession, called by the history panel for a saved session
HandleSelectSession(i) ==
    /\ pc = "idle"
    /\ i \in DOMAIN sessions
    /\ dataset' = [loaded |-> TRUE,
                   data |-> sessions[i].data,
                   headers |-> IF Len(sessions[i].data) > 0 THEN Keys(sessions[i].data[1]) ELSE <<>>,
                   rows |-> sessions[i].rowCount,
                   columns |-> sessions[i].columnCount,
                   columnInfo |-> <<>>]
    /\ originalData' = sessions[i].data
    /\ fileName' = sessions[i].fileName
    /\ transformations' = sessions[i].transformations
    /\ isHistorySession' = TRUE
    /\ currentStep' = DASHBOARD
    /\ UNCHANGED <<isLoading, runVars, sessions, offPage>>

\* the files of one row
HistoryFiles == {f \in SmallFiles : Len(f.data) = 1}

\* imports of one-row files, the Missing step, autopilot runs, and the history
NextHistory ==
    \/ \E file \in HistoryFiles : HandleFileUpload(file)
    \/ \E step \in UPLOAD..DASHBOARD : GoToStep(step)
    \/ NextStep
    \/ \E i \in 1..2, method \in {"mode", "drop"} : ApplyMissing(i, method)
    \/ RunAutomation
    \/ AutoDuplicates
    \/ AutoAdvance
    \/ AutoMissing
    \/ AutoOutliers
    \/ AutoEncoding
    \/ AutoScaling
    \/ AutoFinal
    \/ HandleSaveAndExport
    \/ \E i \in 1..MaxSessions : HandleSelectSession(i)

SpecHistory == Init /\ [][NextHistory]_vars

(***************************************************************************)
(* The page backed by the API (part_000): every handler sends a request    *)
(* and goes on when the response arrives; the requests in flight are       *)
(* served and answered in any order.  The backend is not part of the       *)
(* repository: it is a store of datasets, each with the operations applied *)
(* to it so far, and of saved sessions.                                    *)
(***************************************************************************)
MaxRequests == 3

\* the file the user imports
ApiFiles == {"a.csv"}

\* the table of an uploaded file after the operations ops
Table(name, ops) == [name |-> name, ops |-> ops]

NoTable == Table("", <<>>)

Shown(table) == [loaded |-> TRUE, data |-> table]

\* a returning user: b.csv was imported and its session saved on an earlier visit
EarlierServer == [datasets |-> <<Table("b.csv", <<>>)>>, sent |-> 0]

EarlierSessions == <<[filename |-> "b.csv", dataset_id |-> 1, pipeline |-> <<>>, data |-> Table("b.csv", <<>>)]>>

\* the smallest number no request in flight bears
FreeNumber == CHOOSE n \in 1..MaxRequests + 1 : (\A r \in requests : r.n # n) /\ \A m \in 1..(n - 1) : \E r \in requests : r.n = m

\* a request in flight, numbered n; served once the backend has answered
Request(n, kind, id, arg, name, pipeline) ==
    [n |-> n, kind |-> kind, id |-> id, arg |-> arg, name |-> name, pipeline |-> pipeline,
     served |-> FALSE, ok |-> FALSE, data |-> NoTable]

Pending(kind) == {r \in requests : r.kind = kind /\ ~r.served}

Answered(kind) == {r \in requests : r.kind = kind /\ r.served}

\* setIsLoading(true), then the call of the API
Send(kind, id, arg, name, pipeline) ==
    /\ server.sent < MaxRequests
    /\ isLoading' = TRUE
    /\ requests' = requests \cup {Request(FreeNumber, kind, id, arg, name, pipeline)}
    /\ server' = [server EXCEPT !.sent = @ + 1]

Answer(r, ok, data) == [r EXCEPT !.served = TRUE, !.ok = ok, !.data = data]

InitApi ==
    /\ currentStep = UPLOAD
    /\ dataset = NoDataset
    /\ originalData = <<>>
    /\ transformations = <<>>
    /\ isLoading = FALSE
    /\ fileName = ""
    /\ isHistorySession = FALSE
    /\ pc = "idle"
    /\ idx = 1
    /\ currentData = <<>>
    /\ newTransformations = <<>>
    /\ touched = {}
    /\ lastRun = [done |-> FALSE]
    /\ args = NoArgs
    /\ ret = NoCall
    /\ sessions = EarlierSessions
    /\ datasetId = NoId
    /\ requests = {}
    /\ server = EarlierServer

\* handleFileUpload up to its await; UploadStep shows no input while isLoading
ApiFileUpload(name) ==
    /\ currentStep = UPLOAD
    /\ ~isLoading
    /\ Send("upload", NoId, "", name, <<>>)
    /\ UNCHANGED <<pageVars, runVars, libVars, sessions, datasetId>>

\* the backend stores the uploaded file under a new id
ServeUpload(n) ==
    \E r \in {q \in requests : q.n = n} :
        /\ r \in Pending("upload")
        /\ server' = [server EXCEPT !.datasets = Append(@, Table(r.name, <<>>))]
        /\ requests' = (requests \ {r}) \cup {[Answer(r, TRUE, Table(r.name, <<>>)) EXCEPT !.id = Len(server.datasets) + 1]}
        /\ UNCHANGED <<pageVars, isLoading, runVars, libVars, sessions, datasetId>>

\* handleFileUpload after its await
ApiFileUploadDone(n) ==
    \E r \in {q \in requests : q.n = n} :
        /\ r \in Answered("upload")
        /\ requests' = requests \ {r}
        /\ IF r.ok
           THEN /\ dataset' = Shown(r.data)
                /\ datasetId' = r.id
                /\ originalData' = r.data
                /\ fileName' = r.name
                /\ transformations' = <<>>
                /\ isHistorySession' = FALSE
                /\ currentStep' = OVERVIEW
           ELSE UNCHANGED <<pageVars, datasetId>>
        /\ isLoading' = FALSE
        /\ UNCHANGED <<runVars, libVars, sessions, server>>

\* the operation the step on screen asks for
StepOperation(step) ==
    CASE step = DUPLICATES -> "remove_duplicates"
      [] step = MISSING -> "impute_mode"
      [] step = OUTLIERS -> "treat_outliers_iqr"
      [] step = ENCODING -> "encode_nominal"
      [] step = SCALING -> "minmax_scale"
      [] OTHER -> "select_columns"

\* applyTransformation up to its await, called by the steps DUPLICATES .. SELECTION
ApiApplyTransformation ==
    /\ currentStep \in DUPLICATES..SELECTION
    /\ dataset.loaded
    /\ datasetId # NoId
    /\ Send("process", datasetId, StepOperation(currentStep), "", <<>>)
    /\ UNCHANGED <<pageVars, runVars, libVars, sessions, datasetId>>

\* the backend applies the operation to its copy of the dataset
ServeProcess(n) ==
    \E r \in {q \in requests : q.n = n} :
        /\ r \in Pending("process")
        /\ server' = [server EXCEPT !.datasets[r.id].ops = Append(@, r.arg)]
        /\ requests' = (requests \ {r}) \cup {Answer(r, TRUE, Table(server.datasets[r.id].name, Append(server.datasets[r.id].ops, r.arg)))}
        /\ UNCHANGED <<pageVars, isLoading, runVars, libVars, sessions, datasetId>>

\* applyTransformation after its await
ApiApplyTransformationDone(n) ==
    \E r \in {q \in requests : q.n = n} :
        /\ r \in Answered("process")
        /\ requests' = requests \ {r}
        /\ IF r.ok
           THEN /\ dataset' = Shown(r.data)
                /\ transformations' = Append(transformations, r.arg)
           ELSE UNCHANGED <<dataset, transformations>>
        /\ isLoading' = FALSE
        /\ UNCHANGED <<currentStep, originalData, fileName, isHistorySession>>
        /\ UNCHANGED <<runVars, libVars, sessions, datasetId, server>>

\* runAutomation up to its await, called by the "auto" button of AutoPilotStep
ApiRunAutomation ==
    /\ currentStep = AUTO_PILOT
    /\ datasetId # NoId
    /\ Send("autopilot", datasetId, "autopilot", "", <<>>)
    /\ UNCHANGED <<pageVars, runVars, libVars, sessions, datasetId>>

\* the backend runs its autopilot on its copy of the dataset
ServeAutopilot(n) ==
    \E r \in {q \in requests : q.n = n} :
        /\ r \in Pending("autopilot")
        /\ server' = [server EXCEPT !.datasets[r.id].ops = Append(@, r.arg)]
        /\ requests' = (requests \ {r}) \cup {[Answer(r, TRUE, Table(server.datasets[r.id].name, Append(server.datasets[r.id].ops, r.arg))) EXCEPT !.pipeline = <<r.arg>>]}
        /\ UNCHANGED <<pageVars, isLoading, runVars, libVars, sessions, datasetId>>

\* runAutomation after its await
ApiRunAutomationDone(n) ==
    \E r \in {q \in requests : q.n = n} :
        /\ r \in Answered("autopilot")
        /\ requests' = requests \ {r}
        /\ IF r.ok
           THEN /\ dataset' = Shown(r.data)
                /\ transformations' = transformations \o r.pipeline
                /\ currentStep' = DASHBOARD
           ELSE UNCHANGED <<dataset, transformations, currentStep>>
        /\ isLoading' = FALSE
        /\ UNCHANGED <<originalData, fileName, isHistorySession>>
        /\ UNCHANGED <<runVars, libVars, sessions, datasetId, server>>

\* handleSaveAndExport up to its await, called by the export buttons of DashboardView
ApiSaveAndExport ==
    /\ currentStep = DASHBOARD
    /\ dataset.loaded
    /\ datasetId # NoId
    /\ Send("save", datasetId, "csv", fileName, transformations)
    /\ UNCHANGED <<pageVars, runVars, libVars, sessions, datasetId>>

\* the backend saves the session with the state of the dataset it names, and exports that dataset
ServeSave(n) ==
    \E r \in {q \in requests : q.n = n} :
        /\ r \in Pending("save")
        /\ sessions' = Append(sessions, [filename |-> r.name, dataset_id |-> r.id, pipeline |-> r.pipeline, data |-> server.datasets[r.id]])
        /\ requests' = (requests \ {r}) \cup {Answer(r, TRUE, server.datasets[r.id])}
        /\ UNCHANGED <<pageVars, isLoading, runVars, libVars, datasetId, server>>

\* handleSaveAndExport after its awaits: the download, or the alert
ApiSaveAndExportDone(n) ==
    \E r \in {q \in requests : q.n = n} :
        /\ r \in Answered("save")
        /\ requests' = requests \ {r}
        /\ isLoading' = FALSE
        /\ UNCHANGED <<pageVars, runVars, libVars, sessions, datasetId, server>>

\* handleSelectSession up to its await, called by the history panel
ApiSelectSession(i) ==
    /\ i \in DOMAIN sessions
    /\ Send("getOne", i, "", "", <<>>)
    /\ UNCHANGED <<pageVars, runVars, libVars, sessions, datasetId>>

\* the backend returns the saved session
ServeGetOne(n) ==
    \E r \in {q \in requests : q.n = n} :
        /\ r \in Pending("getOne")
        /\ requests' = (requests \ {r}) \cup {[Answer(r, TRUE, sessions[r.id].data) EXCEPT !.name = sessions[r.id].filename, !.pipeline = sessions[r.id].pipeline]}
        /\ UNCHANGED <<pageVars, isLoading, runVars, libVars, sessions, datasetId, server>>

\* handleSelectSession after its await
ApiSelectSessionDone(n) ==
    \E r \in {q \in requests : q.n = n} :
        /\ r \in Answered("getOne")
        /\ requests' = requests \ {r}
        /\ IF r.ok
           THEN /\ dataset' = Shown(r.data)
                /\ originalData' = r.data
                /\ fileName' = r.name
                /\ transformations' = r.pipeline
                /\ isHistorySession' = TRUE
                /\ currentStep' = DASHBOARD
           ELSE UNCHANGED pageVars
        /\ isLoading' = FALSE
        /\ UNCHANGED <<runVars, libVars, sessions, datasetId, server>>

\* the request fails (network, timeout, error status): the catch block will run
ServeError(n) ==
    \E r \in {q \in requests : q.n = n} :
        /\ r \in requests
        /\ ~r.served
        /\ requests' = (requests \ {r}) \cup {Answer(r, FALSE, NoTable)}
        /\ UNCHANGED <<pageVars, isLoading, runVars, libVars, sessions, datasetId, server>>

NextApi ==
    \/ \E name \in ApiFiles : ApiFileUpload(name)
    \/ \E n \in 1..MaxRequests : ServeUpload(n)
    \/ \E n \in 1..MaxRequests : ApiFileUploadDone(n)
    \/ \E step \in UPLOAD..DASHBOARD : GoToStep(step)
    \/ NextStep
    \/ ApiApplyTransformation
    \/ \E n \in 1..MaxRequests : ServeProcess(n)
    \/ \E n \in 1..MaxRequests : ApiApplyTransformationDone(n)
    \/ ApiRunAutomation
    \/ \E n \in 1..MaxRequests : ServeAutopilot(n)
    \/ \E n \in 1..MaxRequests : ApiRunAutomationDone(n)
    \/ ApiSaveAndExport
    \/ \E n \in 1..MaxRequests : ServeSave(n)
    \/ \E n \in 1..MaxRequests : ApiSaveAndExportDone(n)
    \/ \E i \in 1..MaxRequests : ApiSelectSession(i)
    \/ \E n \in 1..MaxRequests : ServeGetOne(n)
    \/ \E n \in 1..MaxRequests : ApiSelectSessionDone(n)
    \/ \E n \in 1..MaxRequests : ServeError(n)

SpecApi == InitApi /\ [][NextApi]_vars

(***************************************************************************)
(* Direct calls of the functions of dataProcessing (part_007): the         *)
(* arguments are drawn at the start, one function is called on them        *)
(***************************************************************************)
\* the cells of the column v of the generated tables: two numbers, a text
\* that reads as a number, a text that does not, the empty text, null
LibCells == {NumI(1), NumI(7), Str("7"), Str("x"), Str(""), Null}

\* rows {v, w}, one row built in the other key order, one row without v
LibRows ==
    {<<[k |-> "v", v |-> c], [k |-> "w", v |-> d]>> : c \in LibCells, d \in {NumI(2), Null}}
        \cup {<<[k |-> "w", v |-> NumI(2)], [k |-> "v", v |-> NumI(1)]>>, <<[k |-> "w", v |-> NumI(2)]>>}

\* 4 values of 5 read as numbers in v, 4 values of 5 are boolean tokens in w
FourInFive ==
    ByColumns(<<"v", "w">>, <<<<NumI(1), NumI(7), Str("7"), NumI(1), Str("x")>>,
                              <<Bool(TRUE), Str("true"), Str("False"), Bool(FALSE), Str("x")>>>>)

\* every table of 1..MaxRows such rows, the tables of the scenario files,
\* a column holding the same number in 1, 2, 3 and 4 rows, and FourInFive
LibTables ==
    UNION {[1..n -> LibRows] : n \in 1..MaxRows}
        \cup {f.data : f \in {g \in ScenarioFiles : g.ok}}
        \cup {ByColumns(<<"v", "w">>, <<[i \in 1..n |-> NumI(5)], [i \in 1..n |-> NumI(i)]>>) : n \in 1..4}
        \cup {FourInFive}

\* the columns of a table
ColumnsOf(data) == UNION {Range(Keys(data[i])) : i \in DOMAIN data}

\* a name that is not a column of any table
NoColumn == "zz"

LibArgs == UNION {{[data |-> d, column |-> c] : c \in ColumnsOf(d) \cup {NoColumn}} : d \in LibTables}

InitLib ==
    /\ currentStep = UPLOAD
    /\ dataset = NoDataset
    /\ originalData = <<>>
    /\ transformations = <<>>
    /\ isLoading = FALSE
    /\ fileName = ""
    /\ isHistorySession = FALSE
    /\ pc = "idle"
    /\ idx = 1
    /\ currentData = <<>>
    /\ newTransformations = <<>>
    /\ touched = {}
    /\ lastRun = [done |-> FALSE]
    /\ args \in LibArgs
    /\ ret = NoCall
    /\ sessions = <<>>
    /\ datasetId = NoId
    /\ requests = {}
    /\ server = <<>>

\* what a call leaves: the value returned, or the exception thrown
Outcome(op, threw, value) == [op |-> op, threw |-> threw, value |-> IF threw THEN <<>> ELSE value]

CallRemoveDuplicates ==
    /\ ret = NoCall
    /\ ret' = Outcome("removeDuplicates", FALSE, removeDuplicates(args.data))
    /\ UNCHANGED <<args, pageVars, isLoading, runVars, sessions, apiVars>>

\* detectColumnType(nonNull), as buildDatasetInfo calls it for a column
CallDetectColumnType ==
    /\ ret = NoCall
    /\ ret' = Outcome("detectColumnType", FALSE, detectColumnType(SelectSeq(Column(args.data, args.column), IsPresent)))
    /\ UNCHANGED <<args, pageVars, isLoading, runVars, sessions, apiVars>>

CallComputeColumnStats ==
    /\ ret = NoCall
    /\ ret' = Outcome("computeColumnStats", StatsThrows(args.data, args.column), computeColumnStats(args.data, args.column))
    /\ UNCHANGED <<args, pageVars, isLoading, runVars, sessions, apiVars>>

CallDetectOutliersIQR ==
    /\ ret = NoCall
    /\ ret' = Outcome("detectOutliersIQR", StatsThrows(args.data, args.column), detectOutliersIQR(args.data, args.column))
    /\ UNCHANGED <<args, pageVars, isLoading, runVars, sessions, apiVars>>

CallTreatOutliersIQR ==
    /\ ret = NoCall
    /\ ret' = Outcome("treatOutliersIQR", StatsThrows(args.data, args.column), treatOutliersIQR(args.data, args.column))
    /\ UNCHANGED <<args, pageVars, isLoading, runVars, sessions, apiVars>>

CallTreatOutliersWinsor ==
    /\ ret = NoCall
    /\ ret' = Outcome("treatOutliersWinsor", FALSE, treatOutliersWinsor(args.data, args.column))
    /\ UNCHANGED <<args, pageVars, isLoading, runVars, sessions, apiVars>>

CallTreatOutliersZScore ==
    /\ ret = NoCall
    /\ ret' = Outcome("treatOutliersZScore", StatsThrows(args.data, args.column), treatOutliersZScore(args.data, args.column))
    /\ UNCHANGED <<args, pageVars, isLoading, runVars, sessions, apiVars>>

CallImputeByMean ==
    /\ ret = NoCall
    /\ ret' = Outcome("imputeByMean", StatsThrows(args.data, args.column), imputeByMean(args.data, args.column))
    /\ UNCHANGED <<args, pageVars, isLoading, runVars, sessions, apiVars>>

CallImputeByMedian ==
    /\ ret = NoCall
    /\ ret' = Outcome("imputeByMedian", StatsThrows(args.data, args.column), imputeByMedian(args.data, args.column))
    /\ UNCHANGED <<args, pageVars, isLoading, runVars, sessions, apiVars>>

CallImputeByMode ==
    /\ ret = NoCall
    /\ ret' = Outcome("imputeByMode", ModeThrows(args.data, args.column), imputeByMode(args.data, args.column))
    /\ UNCHANGED <<args, pageVars, isLoading, runVars, sessions, apiVars>>

CallImputeByConstant(constant) ==
    /\ ret = NoCall
    /\ ret' = Outcome("imputeByConstant", FALSE, imputeByConstant(args.data, args.column, constant))
    /\ UNCHANGED <<args, pageVars, isLoading, runVars, sessions, apiVars>>

CallOneHotEncode ==
    /\ ret = NoCall
    /\ ret' = Outcome("oneHotEncode", FALSE, oneHotEncode(args.data, args.column))
    /\ UNCHANGED <<args, pageVars, isLoading, runVars, sessions, apiVars>>

CallLabelEncode ==
    /\ ret = NoCall
    /\ ret' = Outcome("labelEncode", FALSE, labelEncode(args.data, args.column))
    /\ UNCHANGED <<args, pageVars, isLoading, runVars, sessions, apiVars>>

\* minMaxScale writing into the rows of its argument instead of into copies
CallMinMaxScale_inplace ==
    /\ ret = NoCall
    /\ ret' = Outcome("minMaxScale", MinMaxThrows(args.data, args.column), minMaxScale(args.data, args.column))
    /\ args' = [args EXCEPT !.data = IF MinMaxThrows(args.data, args.column) THEN @ ELSE minMaxScale(args.data, args.column)]
    /\ UNCHANGED <<pageVars, isLoading, runVars, sessions, apiVars>>

CallMinMaxScale ==
    /\ ret = NoCall
    /\ ret' = Outcome("minMaxScale", MinMaxThrows(args.data, args.column), minMaxScale(args.data, args.column))
    /\ UNCHANGED <<args, pageVars, isLoading, runVars, sessions, apiVars>>

CallStandardScale ==
    /\ ret = NoCall
    /\ ret' = Outcome("standardScale", StatsThrows(args.data, args.column), standardScale(args.data, args.column))
    /\ UNCHANGED <<args, pageVars, isLoading, runVars, sessions, apiVars>>

CallRobustScale ==
    /\ ret = NoCall
    /\ ret' = Outcome("robustScale", StatsThrows(args.data, args.column), robustScale(args.data, args.column))
    /\ UNCHANGED <<args, pageVars, isLoading, runVars, sessions, apiVars>>

NextLib ==
    \/ CallDetectColumnType
    \/ CallRemoveDuplicates
    \/ CallComputeColumnStats
    \/ CallDetectOutliersIQR
    \/ CallTreatOutliersIQR
    \/ CallTreatOutliersWinsor
    \/ CallTreatOutliersZScore
    \/ CallImputeByMean
    \/ CallImputeByMedian
    \/ CallImputeByMode
    \/ \E constant \in {NumI(0), Str("?")} : CallImputeByConstant(constant)
    \/ CallOneHotEncode
    \/ CallLabelEncode
    \/ CallMinMaxScale
    \/ CallStandardScale
    \/ CallRobustScale

SpecLib == InitLib /\ [][NextLib]_vars

(***************************************************************************)
(* Properties                                                              *)
(***************************************************************************)
IsPrefix(a, b) == Len(a) <= Len(b) /\ SubSeq(b, 1, Len(a)) = a

Last(q) == q[Len(q)]

\* one turn of a phase's forEach has been taken
TurnOf(phase) == pc = phase /\ pc' = phase /\ idx' = idx + 1

\* the turn appended exactly the entry of the column with the method label
Logged(phase, column, label) ==
    /\ Len(newTransformations') = Len(newTransformations) + 1
    /\ IsPrefix(newTransformations, newTransformations')
    /\ Last(newTransformations').phase = phase
    /\ Last(newTransformations').col = column
    /\ Last(newTransformations').method = label

\* the number of IQR outliers of a column, none when it holds no number
OutlierCount(data, column) ==
    IF computeColumnStats(data, column).present THEN Len(detectOutliersIQR(data, column).outlierIndices) ELSE 0

EntryRank(phase) ==
    CASE phase = "Duplicates" -> 1
      [] phase = "Missing" -> 2
      [] phase = "Outliers" -> 3
      [] phase = "Encoding" -> 4
      [] phase = "Scaling" -> 5

StageRank(p) ==
    CASE p = "idle" -> 0
      [] p = "duplicates" -> 1
      [] p = "missing" -> 2
      [] p = "outliers" -> 3
      [] p = "encoding" -> 4
      [] p = "scaling" -> 5
      [] p = "final" -> 6

\* C1: a run goes through Duplicates, Missing, Outliers, Encoding, Scaling in
\* this order, one phase after the other and never back; an entry is logged
\* in the phase the run is in, so in the entries of one run no entry of an
\* earlier phase follows an entry of a later phase; and a run only commits
\* after the five phases
C1_PhaseOrder ==
    [][/\ pc' # pc => (pc' = "idle" \/ StageRank(pc') = StageRank(pc) + 1)
       /\ (pc = "idle" /\ pc' # "idle") => pc' = "duplicates"
       /\ Len(newTransformations') > Len(newTransformations) => EntryRank(Last(newTransformations').phase) = StageRank(pc)
       /\ \A i, j \in DOMAIN newTransformations' : i < j => EntryRank(newTransformations'[i].phase) <= EntryRank(newTransformations'[j].phase)
       /\ (pc # "idle" /\ transformations' # transformations) => pc = "final"]_vars

\* a run at its end with entries of at least three phases
C1_Witness ==
    /\ pc = "final"
    /\ Cardinality({newTransformations[i].phase : i \in DOMAIN newTransformations}) >= 3

\* C2: the journal is empty right after an import; a manual operation appends
\* exactly one entry, a run appends its entries, and every other step leaves
\* the journal as it is: but for an import the journal before a step is a
\* prefix of the journal after it
C2_AppendOnly ==
    [][/\ (currentStep = UPLOAD /\ <<dataset, originalData, fileName>>' # <<dataset, originalData, fileName>>) => transformations' = <<>>
       /\ currentStep # UPLOAD => IsPrefix(transformations, transformations')
       /\ (pc = "idle" /\ pc' = "idle" /\ currentStep # UPLOAD /\ dataset' # dataset) =>
             (Len(transformations') = Len(transformations) + 1 /\ Last(transformations').src = "Manual")
       /\ (pc = "final" /\ pc' = "idle") =>
             (Len(transformations') = Len(transformations) + Len(newTransformations)
              /\ \A i \in DOMAIN newTransformations : transformations'[Len(transformations) + i] = newTransformations[i])]_vars

\* a manual entry appended behind the entries of a run
C2_Witness ==
    /\ Len(transformations) >= 2
    /\ transformations[1].src = "Autopilot"
    /\ Last(transformations).src = "Manual"

\* the method the Missing rule names, with "otherwise numeric" read as every
\* column that is not categorical
MissingRuleAsStated(col, data) ==
    LET stats == computeColumnStats(data, col.name)
    IN  IF col.nullPercentage.num > 40 * col.nullPercentage.den THEN "DROP"
        ELSE IF col.type = "categorical" THEN "MODE"
        ELSE IF stats.present /\ isSymmetric(stats) /\ OutlierCount(data, col.name) = 0
                /\ col.nullPercentage.num < 10 * col.nullPercentage.den THEN "MEAN"
        ELSE "MEDIAN"

\* the Missing rule with mode for the columns without numeric statistics
MissingRuleAmended(col, data) ==
    LET stats == computeColumnStats(data, col.name)
    IN  IF col.nullPercentage.num > 40 * col.nullPercentage.den THEN "DROP"
        ELSE IF col.type = "categorical" THEN "MODE"
        ELSE IF col.type = "numeric" /\ stats.present
             THEN IF isSymmetric(stats) /\ OutlierCount(data, col.name) = 0
                     /\ col.nullPercentage.num < 10 * col.nullPercentage.den THEN "MEAN" ELSE "MEDIAN"
        ELSE "MODE"

\* the columns with at least one missing cell, in table order
WithMissing == SelectSeq(dataset.columnInfo, LAMBDA c : c.nullCount >= 1)

TypedNumeric == SelectSeq(dataset.columnInfo, LAMBDA c : c.type = "numeric")

\* C4: in the Outliers phase a numeric column without IQR outlier is left
\* alone and logs nothing; a column with outliers is treated by z-score if
\* normal, else by IQR if symmetric, else by winsorization, the statistics
\* being those of the table as the Missing phase left it
C4_OutlierRule ==
    [][TurnOf("outliers") =>
          LET column == TypedNumeric[idx].name
              stats == computeColumnStats(currentData, column)
          IN  IF OutlierCount(currentData, column) = 0
              THEN currentData' = currentData /\ newTransformations' = newTransformations
              ELSE IF isNormal(stats)
                   THEN Logged("Outliers", column, "Z-Score") /\ currentData' = treatOutliersZScore(currentData, column)
              ELSE IF isSymmetric(stats)
                   THEN Logged("Outliers", column, "IQR") /\ currentData' = treatOutliersIQR(currentData, column)
              ELSE Logged("Outliers", column, "Winsorization") /\ currentData' = treatOutliersWinsor(currentData, column)]_vars

\* the Outliers phase has skipped a column that had an outlier in the table
\* as imported, and treated another column
C4_Witness ==
    /\ pc = "outliers"
    /\ idx > 1
    /\ \E i \in 1..(idx - 1) :
          /\ OutlierCount(dataset.data, TypedNumeric[i].name) > 0
          /\ \A j \in DOMAIN newTransformations : newTransformations[j].col = TypedNumeric[i].name => newTransformations[j].phase # "Outliers"
    /\ \E j \in DOMAIN newTransformations : newTransformations[j].phase = "Outliers"

\* the columns typed categorical, in table order
TypedCategorical == SelectSeq(dataset.columnInfo, LAMBDA c : c.type = "categorical")

NameKeywords == {"target", "label", "outcome", "y", "class", "churn", "survived", "price_range"}

\* the values of a column as strings
Texts(data, column) == {ToStr(Get(data[i], column)) : i \in DOMAIN data}

\* C5: in the Encoding phase each categorical column gets one encoder: label
\* if its lower-cased name contains a keyword; else ordinal if it has more
\* than 15 unique values, each value becoming its rank among the distinct
\* values in lexicographic order; else one-hot
C5_EncodingRule ==
    [][TurnOf("encoding") =>
          LET col == TypedCategorical[idx]
          IN  IF \E k \in NameKeywords : \E i \in 1..Len(col.name) : \E j \in i..Len(col.name) : ToLower(SubSeq(col.name, i, j)) = k
              THEN Logged("Encoding", col.name, "Label") /\ currentData' = labelEncode(currentData, col.name).data
              ELSE IF col.uniqueCount > 15
                   THEN /\ Logged("Encoding", col.name, "Ordinal (Auto-order)")
                        /\ Len(currentData') = Len(currentData)
                        /\ \A r \in DOMAIN currentData :
                              Get(currentData'[r], col.name) =
                                 NumI(Cardinality({w \in Texts(currentData, col.name) : StrLess(w, ToStr(Get(currentData[r], col.name)))}))
              ELSE Logged("Encoding", col.name, "OneHot") /\ currentData' = oneHotEncode(currentData, col.name).data]_vars

\* the Encoding phase has encoded a column by ordinal codes
C5_Witness ==
    /\ pc = "encoding"
    /\ newTransformations # <<>>
    /\ Last(newTransformations).method = "Ordinal (Auto-order)"
    /\ \E r \in DOMAIN currentData : Get(currentData[r], Last(newTransformations).col) = NumI(15)

\* some column of the table is categorical with the name and k unique values
HasCategorical(name, k) ==
    \E i \in DOMAIN dataset.columnInfo :
        /\ dataset.columnInfo[i].name = name
        /\ dataset.columnInfo[i].type = "categorical"
        /\ dataset.columnInfo[i].uniqueCount = k

\* C6: a run on a table with the categorical columns city (4 unique values)
\* and target (2 unique values) encodes target by label and city by one-hot
C6_CityOneHot ==
    (pc = "final" /\ HasCategorical("city", 4) /\ HasCategorical("target", 2)) =>
        /\ \E i \in DOMAIN newTransformations : newTransformations[i].col = "target" /\ newTransformations[i].method = "Label"
        /\ \E i \in DOMAIN newTransformations : newTransformations[i].col = "city" /\ newTransformations[i].method = "OneHot"

\* C7: in the Scaling phase a numeric column holding a number gets one
\* scaler: standard if it is normal without IQR outlier, robust if it has an
\* IQR outlier, min-max otherwise, the statistics being those of the table
\* when the column is scaled
C7_ScalingRule ==
    [][TurnOf("scaling") =>
          LET column == TypedNumeric[idx].name
              stats == computeColumnStats(currentData, column)
          IN  IF ~stats.present
              THEN currentData' = currentData /\ newTransformations' = newTransformations
              ELSE IF isNormal(stats) /\ OutlierCount(currentData, column) = 0
                   THEN Logged("Scaling", column, "Standard") /\ currentData' = standardScale(currentData, column)
              ELSE IF OutlierCount(currentData, column) >= 1
                   THEN Logged("Scaling", column, "Robust") /\ currentData' = robustScale(currentData, column)
              ELSE Logged("Scaling", column, "MinMax") /\ currentData' = minMaxScale(currentData, column)]_vars

\* a run at its end whose Scaling phase has used the three scalers
C7_Witness ==
    /\ pc = "final"
    /\ {"Standard", "Robust", "MinMax"} \subseteq {newTransformations[i].method : i \in DOMAIN newTransformations}

\* C8: the Scaling phase scales only columns typed numeric before the run,
\* and none that the Encoding phase of the run created or rewrote
C8_ScalingFrame ==
    [][(TurnOf("scaling") /\ Len(newTransformations') > Len(newTransformations)) =>
          /\ TypeOf(dataset.columnInfo, Last(newTransformations').col) = "numeric"
          /\ Last(newTransformations').col \notin touched]_vars

\* C9: a failing operator does not end the run: every run goes through its
\* five phases and commits the table and the entries of the operators that
\* succeeded
C9_Isolation ==
    [][(pc # "idle" /\ pc' = "idle") =>
          /\ pc = "final"
          /\ transformations' = transformations \o newTransformations
          /\ dataset'.data = currentData]_vars

Returned(op) == ret.op = op /\ ~ret.threw

\* every column holds an equal value in both rows
SameRow(r1, r2) == \A c \in Range(Keys(r1)) \cup Range(Keys(r2)) : Get(r1, c) = Get(r2, c)

\* the rows of data at the indices in keep, in their order
RECURSIVE RowsAt(_, _)
RowsAt(data, keep) ==
    IF data = <<>> THEN <<>>
    ELSE IF Len(data) \in keep THEN Append(RowsAt(SubSeq(data, 1, Len(data) - 1), keep), data[Len(data)])
    ELSE RowsAt(SubSeq(data, 1, Len(data) - 1), keep)

\* the first row of each group of rows equal column by column
FirstOccurrences(data) == RowsAt(data, {i \in DOMAIN data : \A j \in 1..(i - 1) : ~SameRow(data[j], data[i])})

\* C11: removeDuplicates keeps exactly the first row of each group of rows
\* that hold equal values in every column, however the rows were built, in
\* the original order, and removed is the number of rows dropped
C11_ValueEquality ==
    Returned("removeDuplicates") =>
        /\ ret.value.cleaned = FirstOccurrences(args.data)
        /\ Len(ret.value.cleaned) + ret.value.removed = Len(args.data)

\* C12: removeDuplicates applied to the rows removeDuplicates kept returns
\* the same rows in the same order and removed = 0
C12_Idempotent ==
    Returned("removeDuplicates") =>
        removeDuplicates(ret.value.cleaned) = [cleaned |-> ret.value.cleaned, removed |-> 0]

\* a call that dropped a row and kept two
C12_Witness ==
    /\ Returned("removeDuplicates")
    /\ ret.value.removed >= 1
    /\ Len(ret.value.cleaned) >= 2

\* the cell is a present value that reads as a number
ReadsAsNumber(v) == IsPresent(v) /\ ToNumber(v).ok

\* q1 - 1.5 * iqr and q3 + 1.5 * iqr of the statistics of a column
Fence(stats) == [lower |-> stats.q1 - ExactDiv(3 * stats.iqr, 2), upper |-> stats.q3 + ExactDiv(3 * stats.iqr, 2)]

\* the cell is a present number strictly outside the fence
OutOfFence(v, fence) == ReadsAsNumber(v) /\ (ToNumber(v).v < fence.lower \/ ToNumber(v).v > fence.upper)

\* the cells of every column but one are those of the arguments
OthersUnchanged(out, column) ==
    /\ Len(out) = Len(args.data)
    /\ \A i \in DOMAIN args.data :
           \A c \in (Range(Keys(args.data[i])) \cup Range(Keys(out[i]))) \ {column} :
               HasKey(out[i], c) = HasKey(args.data[i], c) /\ Get(out[i], c) = Get(args.data[i], c)

\* C13: detectOutliersIQR reports row i iff its cell is a present value that
\* reads as a number strictly below q1 - 1.5*iqr or strictly above
\* q3 + 1.5*iqr; missing cells are never reported
C13_OutlierIff ==
    (Returned("detectOutliersIQR") /\ computeColumnStats(args.data, args.column).present) =>
        Range(ret.value.outlierIndices) =
            {i - 1 : i \in {j \in DOMAIN args.data :
                                OutOfFence(Get(args.data[j], args.column), Fence(computeColumnStats(args.data, args.column)))}}

\* C14: treatOutliersIQR sets the cells of the column whose number lies
\* strictly outside the fence to the nearer bound and leaves every other
\* cell, the missing cells of the column included, unchanged
C14_CapFrame ==
    (Returned("treatOutliersIQR") /\ computeColumnStats(args.data, args.column).present) =>
        /\ OthersUnchanged(ret.value, args.column)
        /\ \A i \in DOMAIN args.data :
               LET v == Get(args.data[i], args.column)
                   fence == Fence(computeColumnStats(args.data, args.column))
               IN  Get(ret.value[i], args.column) =
                       IF OutOfFence(v, fence)
                       THEN (IF ToNumber(v).v < fence.lower THEN Num(fence.lower) ELSE Num(fence.upper))
                       ELSE v

\* C15: after imputeByMean, imputeByMedian, imputeByMode or imputeByConstant
\* on a column of the table, the column holds no missing cell and the other
\* columns are unchanged
C15_NoMissingLeft ==
    (/\ \E op \in {"imputeByMean", "imputeByMedian", "imputeByMode", "imputeByConstant"} : Returned(op)
     /\ args.column \in ColumnsOf(args.data)) =>
        /\ OthersUnchanged(ret.value, args.column)
        /\ \A i \in DOMAIN ret.value : IsPresent(Get(ret.value[i], args.column))

\* the texts of the present cells of a column
PresentTexts(data, column) == {ToStr(v) : v \in {w \in Range(Column(data, column)) : IsPresent(w)}}

\* C16: oneHotEncode of a column with k unique non-missing values returns k
\* new columns, removes the column, and leaves a table with k - 1 more
\* columns, whatever the cells and the names of the table
C16_OneHotCount ==
    (Returned("oneHotEncode") /\ args.column \in ColumnsOf(args.data)) =>
        /\ Len(ret.value.newColumns) = Cardinality(PresentTexts(args.data, args.column))
        /\ args.column \notin ColumnsOf(ret.value.data)
        /\ Cardinality(ColumnsOf(ret.value.data)) =
               Cardinality(ColumnsOf(args.data)) + Cardinality(PresentTexts(args.data, args.column)) - 1

\* the distinct values of a column as labelEncode lists them: String(v ?? '')
\* in first-seen row order
FirstSeen(data, column) == Distinct([i \in DOMAIN data |-> ToStrOrEmpty(Get(data[i], column))])

\* the position of a text in a list without repetition
PositionIn(list, x) == CHOOSE j \in DOMAIN list : list[j] = x

\* C17: labelEncode writes into each row the code j - 1 of the j-th distinct
\* value of the column in first-seen order, so the codes are exactly 0..k-1
C17_LabelCodes ==
    (Returned("labelEncode") /\ args.column \in ColumnsOf(args.data)) =>
        /\ \A i \in DOMAIN args.data :
               Get(ret.value.data[i], args.column) =
                   NumI(PositionIn(FirstSeen(args.data, args.column), ToStrOrEmpty(Get(args.data[i], args.column))) - 1)
        /\ {Get(ret.value.data[i], args.column) : i \in DOMAIN args.data} =
               {NumI(j - 1) : j \in DOMAIN FirstSeen(args.data, args.column)}

\* the numbers held by the present cells of a column
ColumnNumbers(data, column) == {ToNumber(v).v : v \in {w \in Range(Column(data, column)) : ReadsAsNumber(w)}}

\* C18: minMaxScale of a column whose maximum differs from its minimum
\* leaves every number of the column in [0,1], the minimum at 0 and the
\* maximum at 1; a column whose maximum equals its minimum is unchanged
C18_UnitRange ==
    (Returned("minMaxScale") /\ ColumnNumbers(args.data, args.column) # {}) =>
        IF \E x, y \in ColumnNumbers(args.data, args.column) : x # y
        THEN \A i \in DOMAIN args.data :
                 ReadsAsNumber(Get(args.data[i], args.column)) =>
                     /\ Get(ret.value[i], args.column).t = "num"
                     /\ Get(ret.value[i], args.column).n \in 0..Scale
                     /\ (\A x \in ColumnNumbers(args.data, args.column) : ToNumber(Get(args.data[i], args.column)).v <= x)
                            => Get(ret.value[i], args.column).n = 0
                     /\ (\A x \in ColumnNumbers(args.data, args.column) : ToNumber(Get(args.data[i], args.column)).v >= x)
                            => Get(ret.value[i], args.column).n = Scale
        ELSE Column(ret.value, args.column) = Column(args.data, args.column)

\* C19: for a column holding the same number c in all its n >= 1 rows,
\* computeColumnStats returns mean = median = mode = c, std = 0, iqr = 0 and
\* skewness = 0, so isNormal and isSymmetric are true
C19_ConstantStats ==
    (/\ Returned("computeColumnStats")
     /\ \A i \in DOMAIN args.data :
            Get(args.data[i], args.column).t = "num" /\ Get(args.data[i], args.column) = Get(args.data[1], args.column)) =>
        /\ ret.value.present
        /\ ret.value.sum = ret.value.n * ret.value.values[1]
        /\ ret.value.median = ret.value.values[1]
        /\ StatsMode(ret.value) = ret.value.values[1]
        /\ ret.value.stdZero
        /\ ret.value.iqr = 0
        /\ ~ret.value.skewNaN
        /\ isNormal(ret.value)
        /\ isSymmetric(ret.value)

\* C20: a function called with a name that is not a column of the table
\* throws and adds or changes nothing
C20_UnknownColumn ==
    (ret.op \notin {"none", "removeDuplicates", "computeColumnStats", "detectOutliersIQR"} /\ args.column \notin ColumnsOf(args.data)) =>
        ret.threw

(***************************************************************************)
(* Properties of the session state                                         *)
(***************************************************************************)
\* C21: whenever a dataset is loaded, rows is the number of data rows,
\* columns is the number of headers, and every row has exactly the headers
\* as its keys
C21_Shape ==
    dataset.loaded =>
        /\ dataset.rows = Len(dataset.data)
        /\ dataset.columns = Len(dataset.headers)
        /\ \A i \in DOMAIN dataset.data :
               Len(dataset.data[i]) = Len(dataset.headers) /\ Range(Keys(dataset.data[i])) = Range(dataset.headers)

MissingCount(data, name) == Len(SelectSeq(Column(data, name), IsMissing))

\* the Missing phase is about to start: currentData is the deduplicated table
AfterDeduplication == pc = "missing" /\ idx = 1

\* C24: the null count and null percentage the autopilot Missing phase uses
\* to select the columns and to test the 40 and 10 thresholds are those of
\* the table after deduplication
C24_AfterDedup ==
    AfterDeduplication =>
        \A k \in DOMAIN dataset.columnInfo :
            /\ (dataset.columnInfo[k].nullCount > 0) <=> (MissingCount(currentData, dataset.columnInfo[k].name) > 0)
            /\ PctAbove(dataset.columnInfo[k].nullPercentage, DropThreshold)
                   <=> PctAbove(Pct(MissingCount(currentData, dataset.columnInfo[k].name), Len(currentData)), DropThreshold)
            /\ PctBelow(dataset.columnInfo[k].nullPercentage, MeanThreshold)
                   <=> PctBelow(Pct(MissingCount(currentData, dataset.columnInfo[k].name), Len(currentData)), MeanThreshold)

\* the metadata of column k of ds, as buildDatasetInfo computes it from the current data
Recomputed(ds, k) == buildDatasetInfo(ds.data, ds.headers).columnInfo[k]

SamePct(p, q) == p.den > 0 /\ q.den > 0 /\ p.num * q.den = q.num * p.den

\* C25: after every transform (manual operator or autopilot) each column's
\* metadata equals what is computed from the current data: null count, null
\* percentage, unique count and inferred type, new columns included
C25_MetadataCurrent ==
    (dataset.loaded /\ pc = "idle" /\ transformations # <<>>) =>
        /\ Len(dataset.columnInfo) = Len(dataset.headers)
        /\ \A k \in DOMAIN dataset.columnInfo :
               /\ dataset.columnInfo[k].name = dataset.headers[k]
               /\ dataset.columnInfo[k].nullCount = Recomputed(dataset, k).nullCount
               /\ SamePct(dataset.columnInfo[k].nullPercentage, Recomputed(dataset, k).nullPercentage)
               /\ dataset.columnInfo[k].uniqueCount = Recomputed(dataset, k).uniqueCount
               /\ dataset.columnInfo[k].type = Recomputed(dataset, k).type

(***************************************************************************)
(* Properties of the type inference                                        *)
(***************************************************************************)
\* the first (up to 100) non-missing values of the column of the call
Sampled == Take(SelectSeq(Column(args.data, args.column), IsPresent), SampleLimit)

\* count / total >= 0.8
AtLeastFourFifths(count, total) == 5 * count >= 4 * total

\* C26: type inference over the first (up to 100) non-missing values returns
\* numeric when at least 80% of them parse as numbers (exactly 80%
\* included), otherwise boolean when at least 80% are boolean-like tokens
\* (exactly 80% included), otherwise categorical
C26_TypeThreshold ==
    (Returned("detectColumnType") /\ Sampled # <<>>) =>
        ret.value = IF AtLeastFourFifths(Len(SelectSeq(Sampled, IsNumericLike)), Len(Sampled)) THEN "numeric"
                    ELSE IF AtLeastFourFifths(Len(SelectSeq(Sampled, IsBoolLike)), Len(Sampled)) THEN "boolean"
                    ELSE "categorical"

\* the autopilot run has gone through its phases: currentData is the final table
RunComplete == pc = "final"

\* C27: after an autopilot run completes, no column that had missing cells
\* before the run still has a missing cell in the final table
C27_NoMissingAfterRun ==
    RunComplete =>
        \A k \in DOMAIN dataset.headers :
            MissingCount(dataset.data, dataset.headers[k]) > 0 =>
                \A i \in DOMAIN currentData :
                    HasKey(currentData[i], dataset.headers[k]) => IsPresent(Get(currentData[i], dataset.headers[k]))

(***************************************************************************)
(* Properties of the wizard                                                *)
(***************************************************************************)
\* the current step is one of the ten steps, and beyond UPLOAD only with a dataset
StepInRange == currentStep \in UPLOAD..DASHBOARD /\ (currentStep > UPLOAD => dataset.loaded)

\* what a call of goToStep does to the current step
GoToStepBound ==
    (\E step \in UPLOAD..DASHBOARD : GoToStep(step)) =>
        /\ currentStep' <= currentStep + 1
        /\ isHistorySession => currentStep' = currentStep

InFlightFor(id) == {r \in requests : r.kind \in {"process", "autopilot"} /\ r.id = id}

\* C22: operators are invoked strictly one after another: at no time are two
\* transformation or autopilot requests for the same dataset in flight
\* together, so the displayed dataset is the result of the operations
\* recorded in the journal, up to the last one
C22_OneAtATime ==
    /\ \A r \in requests : Cardinality(InFlightFor(r.id)) <= 1
    /\ (dataset.loaded /\ ~isHistorySession) => dataset.data.ops = transformations

\* a saved session is on screen and this step does not open another one
StaysInHistory == isHistorySession /\ ~(\E n \in 1..MaxRequests : ApiSelectSessionDone(n))

\* C28: once a saved session is opened from the history the session is
\* read-only: whatever the user clicks and whichever earlier request
\* completes, the current step stays DASHBOARD and the displayed dataset and
\* journal stay those of the archived session until another session is selected
C28_HistoryReadOnly ==
    [][StaysInHistory => (currentStep' = DASHBOARD /\ dataset' = dataset /\ transformations' = transformations)]_vars

\* the name of the file the backend holds under the dataset id
UploadedName(id) == server.datasets[id].name

\* the save-and-export requests this step sends
SavesSent == {r \in requests' : r.kind = "save"} \ requests

\* C29: whenever a save-and-export request is sent, the dataset id it names
\* identifies the dataset currently displayed: it never names the id of one
\* file under the file name of another
C29_SaveNamesDisplayed ==
    [][\A r \in SavesSent : UploadedName(r.id) = dataset.data.name /\ UploadedName(r.id) = r.name]_vars

====
